---- MODULE Spec2Model ----
(***************************************************************************)
(* Session memory and conclusion synthesis of the EDA agent                *)
(* (src/memory/enhanced_memory.py, src/agents/eda_agent.py).               *)
(*                                                                         *)
(* Python strings are TLA+ strings handled character by character          *)
(* (Len, SubSeq and \o on strings); Python lists are sequences; Python     *)
(* dicts, whose iteration order is insertion order, are sequences of       *)
(* records carrying a "key" field.                                         *)
(***************************************************************************)
EXTENDS Integers, Sequences, FiniteSets, TLC

(***************************************************************************)
(* Bounds of the model.                                                    *)
(***************************************************************************)
\* largest capacity a session is constructed with in Init
MaxCapacity == 2
\* largest number of add_analysis calls between two resets
MaxCalls == 3
\* largest reading of the wall clock
MaxNow == 1
\* largest number of fragments of a generated analysis text (SpecText)
MaxFrags == 3
\* largest number of lines of a generated bullet text (SpecText)
MaxLines == 12

(***************************************************************************)
(* Python built-ins on strings and lists.                                  *)
(***************************************************************************)
Min(a, b) == IF a <= b THEN a ELSE b
Max(a, b) == IF a >= b THEN a ELSE b

\* seq[:n], also for n < 0 and n > len(seq)
SliceTo(seq, n) ==
    IF n >= 0 THEN SubSeq(seq, 1, Min(n, Len(seq)))
    ELSE SubSeq(seq, 1, Max(Len(seq) + n, 0))

\* the characters str.split() and str.strip() treat as whitespace
Whitespace == {" ", "\n", "\t"}

UpperChars == <<"A", "B", "C", "D", "E", "F", "G", "H", "I", "J", "K", "L", "M",
                "N", "O", "P", "Q", "R", "S", "T", "U", "V", "W", "X", "Y", "Z",
                "Á", "Â", "Ã", "Ç", "É", "Ê", "Í", "Ó", "Õ", "Ú">>
LowerChars == <<"a", "b", "c", "d", "e", "f", "g", "h", "i", "j", "k", "l", "m",
                "n", "o", "p", "q", "r", "s", "t", "u", "v", "w", "x", "y", "z",
                "á", "â", "ã", "ç", "é", "ê", "í", "ó", "õ", "ú">>

LowerChar(c) ==
    IF \E i \in 1..Len(UpperChars) : UpperChars[i] = c
    THEN LowerChars[CHOOSE i \in 1..Len(UpperChars) : UpperChars[i] = c]
    ELSE c

\* str.lower()
RECURSIVE Lower(_)
Lower(s) ==
    IF Len(s) = 0 THEN ""
    ELSE LowerChar(SubSeq(s, 1, 1)) \o Lower(SubSeq(s, 2, Len(s)))

\* k in s (substring containment)
Contains(s, k) ==
    \E i \in 1..(Len(s) - Len(k) + 1) : SubSeq(s, i, i + Len(k) - 1) = k

\* s.startswith(k)
StartsWith(s, k) == Len(k) <= Len(s) /\ SubSeq(s, 1, Len(k)) = k

\* s.find(k) + 1: the 1-based index of the first occurrence, 0 when absent
Find(s, k) ==
    IF Contains(s, k)
    THEN CHOOSE i \in 1..(Len(s) - Len(k) + 1) :
            /\ SubSeq(s, i, i + Len(k) - 1) = k
            /\ \A j \in 1..(i - 1) : SubSeq(s, j, j + Len(k) - 1) # k
    ELSE 0

\* s.split(sep), sep non-empty: the pieces between the occurrences of sep
RECURSIVE Split(_, _)
Split(s, sep) ==
    IF Find(s, sep) = 0 THEN <<s>>
    ELSE <<SubSeq(s, 1, Find(s, sep) - 1)>>
         \o Split(SubSeq(s, Find(s, sep) + Len(sep), Len(s)), sep)

\* s.strip()
RECURSIVE LStrip(_)
LStrip(s) ==
    IF Len(s) > 0 /\ SubSeq(s, 1, 1) \in Whitespace
    THEN LStrip(SubSeq(s, 2, Len(s))) ELSE s
RECURSIVE RStrip(_)
RStrip(s) ==
    IF Len(s) > 0 /\ SubSeq(s, Len(s), Len(s)) \in Whitespace
    THEN RStrip(SubSeq(s, 1, Len(s) - 1)) ELSE s
Strip(s) == RStrip(LStrip(s))

\* the index of the first whitespace character of s, Len(s) + 1 when none
FirstSpace(s) ==
    IF \E i \in 1..Len(s) : SubSeq(s, i, i) \in Whitespace
    THEN CHOOSE i \in 1..Len(s) :
            /\ SubSeq(s, i, i) \in Whitespace
            /\ \A j \in 1..(i - 1) : SubSeq(s, j, j) \notin Whitespace
    ELSE Len(s) + 1

\* s.split(): the maximal runs of non-whitespace characters
RECURSIVE SplitWords(_)
SplitWords(s) ==
    IF Len(LStrip(s)) = 0 THEN <<>>
    ELSE <<SubSeq(LStrip(s), 1, FirstSpace(LStrip(s)) - 1)>>
         \o SplitWords(SubSeq(LStrip(s), FirstSpace(LStrip(s)), Len(LStrip(s))))

\* any(k in s for k in keywords)
AnyIn(keywords, s) == \E i \in 1..Len(keywords) : Contains(s, keywords[i])

\* dict.get(key, default) on a result bundle (a function from its keys)
Get(d, k, default) == IF k \in DOMAIN d THEN d[k] ELSE default

(***************************************************************************)
(* Ordered dictionaries: a sequence of records with a "key" field, in      *)
(* insertion order.                                                        *)
(***************************************************************************)
Keys(d) == {d[i].key : i \in 1..Len(d)}
HasKey(d, k) == \E i \in 1..Len(d) : d[i].key = k
IndexOf(d, k) == CHOOSE i \in 1..Len(d) : d[i].key = k
Lookup(d, k) == d[IndexOf(d, k)]
\* d[k] = v: overwrite in place, or append a new key at the end
Put(d, k, v) ==
    IF HasKey(d, k) THEN [d EXCEPT ![IndexOf(d, k)] = v] ELSE Append(d, v)

(***************************************************************************)
(* The extractors of EnhancedSessionMemory.                                *)
(***************************************************************************)
FindingKeywords == <<"encontrado", "identificado", "detectado", "observado">>
MaxFindings == 10
MaxRecommendations == 5
InsightFindingsPerUpdate == 3

\* the bullet character U+2022 of line 51, written as the Latin-1 middle dot
\* (string literals hold Latin-1 characters only)
Bullet == "·"

\* faulty variant: the keywords are looked for in the line as written
IsFindingLineCaseSensitive(line) ==
    \/ StartsWith(Strip(line), "-")
    \/ StartsWith(Strip(line), Bullet)
    \/ AnyIn(FindingKeywords, line)

\* the loop body of _extract_key_findings: does the line qualify
IsFindingLine(line) ==
    \/ StartsWith(Strip(line), "-")
    \/ StartsWith(Strip(line), Bullet)
    \/ AnyIn(FindingKeywords, Lower(line))

RECURSIVE FindingLines(_)
FindingLines(lines) ==
    IF lines = <<>> THEN <<>>
    ELSE (IF IsFindingLine(Head(lines)) THEN <<Strip(Head(lines))>> ELSE <<>>)
         \o FindingLines(Tail(lines))

\* faulty variant: every qualifying line is kept
_extract_key_findings_all(analysis_result) ==
    FindingLines(Split(Get(analysis_result, "analysis", ""), "\n"))

_extract_key_findings(analysis_result) ==
    SliceTo(FindingLines(Split(Get(analysis_result, "analysis", ""), "\n")),
            MaxFindings)

Pattern(k) == [key |-> k, value |-> TRUE]

\* faulty variant: the strength and the amount are tested outside their families
_extract_patterns_flat(analysis_result) ==
    LET analysis_text == Lower(Get(analysis_result, "analysis", ""))
    IN  (IF Contains(analysis_text, "correlação") \/ Contains(analysis_text, "correlation")
         THEN <<Pattern("has_correlations")>> ELSE <<>>)
        \o
        (IF Contains(analysis_text, "forte") \/ Contains(analysis_text, "strong")
         THEN <<Pattern("strong_correlations")>> ELSE <<>>)
        \o
        (IF Contains(analysis_text, "outlier") \/ Contains(analysis_text, "atípico")
         THEN <<Pattern("has_outliers")>> ELSE <<>>)
        \o
        (IF AnyIn(<<"alta porcentagem", "high percentage", "muitos outliers">>,
                  analysis_text)
         THEN <<Pattern("many_outliers")>> ELSE <<>>)
        \o
        (IF \/ Contains(analysis_text, "assimétrica")
            \/ Contains(analysis_text, "asymmetric")
            \/ Contains(analysis_text, "skew")
         THEN <<Pattern("asymmetric_distributions")>> ELSE <<>>)
        \o
        (IF Contains(analysis_text, "cluster") \/ Contains(analysis_text, "agrupamento")
         THEN <<Pattern("has_clusters")>> ELSE <<>>)
        \o
        (IF \/ Contains(analysis_text, "tendência")
            \/ Contains(analysis_text, "trend")
            \/ Contains(analysis_text, "padrão temporal")
         THEN <<Pattern("has_temporal_patterns")>> ELSE <<>>)

_extract_patterns(analysis_result) ==
    LET analysis_text == Lower(Get(analysis_result, "analysis", ""))
    IN  (IF Contains(analysis_text, "correlação") \/ Contains(analysis_text, "correlation")
         THEN <<Pattern("has_correlations")>>
              \o (IF Contains(analysis_text, "forte") \/ Contains(analysis_text, "strong")
                  THEN <<Pattern("strong_correlations")>> ELSE <<>>)
         ELSE <<>>)
        \o
        (IF Contains(analysis_text, "outlier") \/ Contains(analysis_text, "atípico")
         THEN <<Pattern("has_outliers")>>
              \o (IF AnyIn(<<"alta porcentagem", "high percentage", "muitos outliers">>,
                           analysis_text)
                  THEN <<Pattern("many_outliers")>> ELSE <<>>)
         ELSE <<>>)
        \o
        (IF \/ Contains(analysis_text, "assimétrica")
            \/ Contains(analysis_text, "asymmetric")
            \/ Contains(analysis_text, "skew")
         THEN <<Pattern("asymmetric_distributions")>> ELSE <<>>)
        \o
        (IF Contains(analysis_text, "cluster") \/ Contains(analysis_text, "agrupamento")
         THEN <<Pattern("has_clusters")>> ELSE <<>>)
        \o
        (IF \/ Contains(analysis_text, "tendência")
            \/ Contains(analysis_text, "trend")
            \/ Contains(analysis_text, "padrão temporal")
         THEN <<Pattern("has_temporal_patterns")>> ELSE <<>>)

RECURSIVE HyphenLines(_)
HyphenLines(lines) ==
    IF lines = <<>> THEN <<>>
    ELSE (IF StartsWith(Strip(Head(lines)), "-") THEN <<Strip(Head(lines))>> ELSE <<>>)
         \o HyphenLines(Tail(lines))

\* faulty variant: the text is always split at the capitalised heading
RecSeparatorHeadingOnly(analysis_text) == "Recomendações"

\* the token line 95 splits the text at
RecSeparator(analysis_text) ==
    IF Contains(analysis_text, "Recomendações") THEN "Recomendações" ELSE "ecomenda"

\* line 95 raises IndexError: split(...)[1] is taken and split gave one piece
RecSectionRaises(analysis_text) ==
    /\ Contains(analysis_text, "ecomenda")
    /\ Len(Split(analysis_text, RecSeparator(analysis_text))) < 2

\* the section of the text the recommendation lines are read from
RecSection(analysis_text) ==
    IF Contains(analysis_text, "ecomenda")
    THEN Split(analysis_text, RecSeparator(analysis_text))[2]
    ELSE analysis_text

\* does _extract_recommendations raise (the marker test guards line 95)
_extract_recommendations_raises(analysis_result) ==
    LET analysis_text == Get(analysis_result, "analysis", "")
    IN  /\ \/ Contains(Lower(analysis_text), "recomenda")
           \/ Contains(Lower(analysis_text), "consider")
        /\ RecSectionRaises(analysis_text)

_extract_recommendations(analysis_result) ==
    LET analysis_text == Get(analysis_result, "analysis", "")
    IN  SliceTo(IF /\ \/ Contains(Lower(analysis_text), "recomenda")
                      \/ Contains(Lower(analysis_text), "consider")
                   /\ ~RecSectionRaises(analysis_text)
                THEN HyphenLines(Split(RecSection(analysis_text), "\n"))
                ELSE <<>>,
                MaxRecommendations)

(***************************************************************************)
(* The inputs the operations are called with.                              *)
(***************************************************************************)
BulletText ==
    "- a\n- a\n- a\n- a\n- a\n- a\n- a\n- a\n- a\n- a\n- k\nRecomendações:\n- r\n- r\n- r\n- r\n- r\n- s"

CorrelationCall ==
    [question |-> "Existe correlação entre as variáveis?",
     analysis_type |-> "correlation",
     analysis_result |->
         [analysis |-> "Foi encontrado: correlação forte entre x e y\n- r = 0.9",
          plots |-> <<"heatmap">>]]

OutlierCall ==
    [question |-> "Quais outliers existem?",
     analysis_type |-> "outlier",
     analysis_result |->
         [analysis |-> "Outliers detectados em alta porcentagem\nRecomendações:\n- usar mediana",
          plots |-> <<"boxplot">>]]

\* more bullet lines than findings are kept, more hyphen lines than recommendations
BulletCall ==
    [question |-> "Resumo geral",
     analysis_type |-> "general",
     analysis_result |-> [analysis |-> BulletText, plots |-> <<>>]]

\* a result bundle without the key 'analysis'
EmptyCall ==
    [question |-> "ok",
     analysis_type |-> "correlation",
     analysis_result |-> [plots |-> <<>>]]

Catalogue == {CorrelationCall, OutlierCall, BulletCall, EmptyCall}

\* the questions the ranker is asked
Questions ==
    { "Existe correlação entre as variáveis?",
      "Outliers ou correlation?",
      "ok?" }

\* the values of n the ranker is asked with
Ns == {-1, 0, 1, 3}

(***************************************************************************)
(* EDAAgent: the helpers of analyze and what the agent executor returns.   *)
(***************************************************************************)
MaxInsights == 5
MaxAgentRecommendations == 5
ContextFindings == 2
DefaultN == 3

InsightKeywords == <<"insight:", "descoberta:", "padrão:", "encontrado:", "identificado:">>

RECURSIVE InsightLines(_)
InsightLines(lines) ==
    IF lines = <<>> THEN <<>>
    ELSE (IF AnyIn(InsightKeywords, Lower(Head(lines)))
          THEN <<Strip(Head(lines))>> ELSE <<>>)
         \o InsightLines(Tail(lines))

\* EDAAgent._extract_insights
_extract_insights(text) == SliceTo(InsightLines(Split(text, "\n")), MaxInsights)

\* the loop of EDAAgent._extract_recommendations, in_rec_section being the flag
RECURSIVE SectionLines(_, _)
SectionLines(lines, in_rec_section) ==
    IF lines = <<>> THEN <<>>
    ELSE LET flag == in_rec_section \/ Contains(Lower(Head(lines)), "recomenda")
         IN  (IF flag /\ StartsWith(Strip(Head(lines)), "-")
              THEN <<Strip(Head(lines))>> ELSE <<>>)
             \o SectionLines(Tail(lines), flag)

\* EDAAgent._extract_recommendations
EDAAgent_extract_recommendations(text) ==
    SliceTo(SectionLines(Split(text, "\n"), FALSE), MaxAgentRecommendations)

\* the if / elif chain of _determine_analysis_type, in its order
analysis_type_rules ==
    << [tag |-> "conclusions", words |-> <<"conclus", "aprend", "resumo geral", "insights gerais">>],
       [tag |-> "correlation", words |-> <<"correlação", "relação", "correlation", "relaciona">>],
       [tag |-> "outlier", words |-> <<"outlier", "anomalia", "atípico", "anomal">>],
       [tag |-> "clustering", words |-> <<"cluster", "agrupamento", "grupo", "segmenta">>],
       [tag |-> "temporal", words |-> <<"tempo", "temporal", "tendência", "time", "trend">>],
       [tag |-> "distribution", words |-> <<"distribuição", "histograma", "distribution", "histogram">>],
       [tag |-> "summary", words |-> <<"tipo", "types", "describe", "resumo", "summary">>] >>

RECURSIVE FirstRule(_, _)
FirstRule(i, question_lower) ==
    IF i > Len(analysis_type_rules) THEN "general"
    ELSE IF AnyIn(analysis_type_rules[i].words, question_lower)
         THEN analysis_type_rules[i].tag
         ELSE FirstRule(i + 1, question_lower)

_determine_analysis_type(question) == FirstRule(1, Lower(question))

\* the questions analyze is called with
AgentQuestions ==
    { "Existe correlação entre as variáveis?", "Quais outliers existem?", "ok?",
      "Existe tendência?" }

\* _determine_analysis_type, evaluated once per question
DeterminedType == [q \in AgentQuestions |-> _determine_analysis_type(q)]

\* what self.agent.invoke does: it raises (or returns no 'output'), or it
\* returns a text; its tools have put plots into self.generated_plots
AgentOutcomes ==
    { [raises |-> TRUE, plots |-> <<>>],
      [raises |-> TRUE, plots |-> <<"heatmap">>],
      [raises |-> FALSE, plots |-> <<"heatmap">>,
       output |-> "Foi encontrado: correlação forte entre x e y\n- r = 0.9"],
      [raises |-> FALSE, plots |-> <<>>,
       output |-> "Insight: nada\nRecomendações:\n- usar mediana"] }

\* the analysis_result analyze hands to add_analysis
AgentBundle(output, plots) ==
    [analysis |-> output, plots |-> plots,
     insights |-> _extract_insights(output),
     recommendations |-> EDAAgent_extract_recommendations(output)]

\* AgentBundle, evaluated once per outcome
AgentBundles ==
    [o \in {x \in AgentOutcomes : ~x.raises} |-> AgentBundle(o.output, o.plots)]

\* self.generated_plots.update(plots), of the names of the plots
PlotsUpdate(generated_plots, plots) ==
    generated_plots
      \o SelectSeq(plots, LAMBDA p : \A i \in 1..Len(generated_plots) : generated_plots[i] # p)

\* the values self.generated_plots can take
AgentPlotSets == {PlotsUpdate(a.plots, b.plots) : a, b \in AgentOutcomes}

\* sep.join(parts)
RECURSIVE JoinWith(_, _)
JoinWith(parts, sep) ==
    IF parts = <<>> THEN ""
    ELSE IF Len(parts) = 1 THEN parts[1]
    ELSE parts[1] \o sep \o JoinWith(Tail(parts), sep)

\* The extractors and the relevance score are pure functions of strings:
\* each is evaluated once per input of the model and looked up afterwards.
ExtractAll(analysis_result) ==
    [key_findings |-> _extract_key_findings(analysis_result),
     data_patterns |-> _extract_patterns(analysis_result),
     recommendations |-> _extract_recommendations(analysis_result),
     raises |-> _extract_recommendations_raises(analysis_result)]

\* results with five recommendations each, one of them shared (SpecRecs)
RecsCallA ==
    [question |-> "Que fazer primeiro?",
     analysis_type |-> "general",
     analysis_result |->
         [analysis |-> "Recomendações:\n- r1\n- r2\n- r3\n- r4\n- r5", plots |-> <<>>]]

RecsCallB ==
    [question |-> "Que fazer depois?",
     analysis_type |-> "general",
     analysis_result |->
         [analysis |-> "Recomendações:\n- r5\n- r6\n- r7\n- r8\n- r9", plots |-> <<>>]]

\* a result of type general that mentions a correlation and outliers,
\* neither with a strength or an amount
MixedCall ==
    [question |-> "Que mais?",
     analysis_type |-> "general",
     analysis_result |->
         [analysis |-> "Correlation fraca e poucos outliers", plots |-> <<>>]]

RecCatalogue == {RecsCallA, RecsCallB, CorrelationCall, MixedCall}

Extracted ==
    [r \in {c.analysis_result : c \in Catalogue \cup RecCatalogue}
            \cup {[AgentBundles[o] EXCEPT !.plots = plots] :
                     o \in DOMAIN AgentBundles, plots \in AgentPlotSets} |-> ExtractAll(r)]

\* the pieces analysis texts are generated from (SpecText), each with the
\* separator that ends it; a text takes its pieces in this order
Fragments ==
    <<"Correlação ", "CORRELATION\n", "forte ", "Strong\n",
      "Outliers ", "atípico\n", "alta porcentagem ", "High Percentage\n",
      "muitos outliers ", "assimétrica\n", "Skewness ", "asymmetric\n",
      "clusters\n", "Agrupamento ", "tendência\n", "Trend ",
      "padrão temporal\n", "nada ">>

BulletLine == "- a\n"
HeadingLine == "Recomendações:\n"
RecLine == "- r\n"

\* the pieces texts with recommendation markers are generated from
\* (SpecText), taken in any order and any number of times
MarkerFragments ==
    <<"Recomendações:\n- r\n", "recomendamos\n- s\n", "RECOMENDA\n", "Consider\n",
      "ecomenda\n", "- t\n", "texto\n">>

\* the lines texts with findings are generated from (SpecText), taken in any
\* order and any number of times: hyphen and bullet lines with and without
\* blanks around them, keyword lines in both letter cases, lines that do not
\* qualify
FindingFragments ==
    <<"  - a \n", "· b\n", "Foi ENCONTRADO x\n", "observado: y\n",
      "nada\n", "a - b\n", "\n">>

\* frags[1] \o frags[2] \o ...
RECURSIVE Concat(_)
Concat(frags) == IF frags = <<>> THEN "" ELSE Head(frags) \o Concat(Tail(frags))

\* every piece a generated text can hold
Pieces ==
    {Fragments[i] : i \in DOMAIN Fragments}
      \cup {MarkerFragments[i] : i \in DOMAIN MarkerFragments}
      \cup {FindingFragments[i] : i \in DOMAIN FindingFragments}
      \cup {BulletLine, HeadingLine, RecLine}

\* a generated text, its result bundle and what the extractors make of it
\* (mode "missing": a bundle without the key 'analysis'); each piece is read
\* from Pieces, so that the text holds the characters written above
MakeSample(mode, frags) ==
    LET pieces == [i \in 1..Len(frags) |-> CHOOSE p \in Pieces : p = frags[i]]
        bundle == IF mode = "missing" THEN [plots |-> <<>>]
                  ELSE [analysis |-> Concat(pieces), plots |-> <<>>]
    IN  [mode |-> mode, frags |-> pieces, bundle |-> bundle,
         extracted |-> ExtractAll(bundle)]

NoSample == [mode |-> "none"]

\* no analyze call is in progress and none has returned
NoCall == [pc |-> "idle"]

(***************************************************************************)
(* The state: one EDAAgent's session memory (self.memory), the wall clock, *)
(* the value the last operation of the memory returned, the inputs of the  *)
(* add_analysis calls made since the last reset (history variable), and    *)
(* the agent's analyze call.                                               *)
(***************************************************************************)
VARIABLES
    max_interactions,      \* EnhancedSessionMemory.max_interactions
    analysis_history,      \* deque(maxlen = max_interactions) of AnalysisMemory
    data_insights,         \* dict: analysis type -> bucket (Insight Aggregator)
    conversation_summary,  \* str
    global_patterns,       \* dict: pattern -> {count, analyses}
    now,                   \* the reading datetime.now() gives
    ret,                   \* the last operation, its arguments and what it returned
                           \* (for a reset: how many calls it discarded)
    calls,                 \* the add_analysis calls since the last reset
    sample,                \* the analysis text under construction (SpecText)
    agent                  \* EDAAgent.analyze: where the call in progress is, its
                           \* locals, and what the last call returned (SpecAgent)

vars == <<max_interactions, analysis_history, data_insights, conversation_summary,
          global_patterns, now, ret, calls, sample, agent>>
session == <<analysis_history, data_insights, conversation_summary, global_patterns>>

\* Python's None
None == <<>>

\* the default of the constructor's max_interactions
DefaultMaxInteractions == 100

\* datetime.isoformat(), of a clock reading
isoformat(t) == "T" \o ToString(t)

AnalysisMemory(timestamp, question, analysis_type, key_findings, visualizations, data_patterns, recommendations) ==
    [timestamp |-> timestamp, question |-> question, analysis_type |-> analysis_type,
     key_findings |-> key_findings, visualizations |-> visualizations,
     data_patterns |-> data_patterns, recommendations |-> recommendations]

\* faulty variant: a plain list, nothing is ever dropped
DequeAppendUnbounded(dq, maxlen, e) == Append(dq, e)

\* faulty variant: a full deque drops its rightmost (newest) element
DequeAppendDropNewest(dq, maxlen, e) ==
    IF maxlen = 0 THEN dq
    ELSE IF Len(dq) = maxlen THEN Append(SubSeq(dq, 1, Len(dq) - 1), e)
    ELSE Append(dq, e)

\* deque(maxlen).append(e): a full deque drops its leftmost element first
DequeAppend(dq, maxlen, e) ==
    IF maxlen = 0 THEN dq
    ELSE IF Len(dq) = maxlen THEN Append(Tail(dq), e)
    ELSE Append(dq, e)

\* for pattern, value in items: d[pattern] = value
RECURSIVE PutAll(_, _)
PutAll(d, items) ==
    IF items = <<>> THEN d
    ELSE PutAll(Put(d, Head(items).key, Head(items)), Tail(items))

NewBucket(analysis_type) ==
    [key |-> analysis_type, count |-> 0, patterns |-> <<>>,
     last_analysis |-> None, key_findings |-> <<>>]

\* faulty variant: the count is taken by re-scanning the bounded history
_update_insights_rescan(insights, memory_entry) ==
    LET analysis_type == memory_entry.analysis_type
        scanned == DequeAppend(analysis_history, max_interactions, memory_entry)
        created == IF HasKey(insights, analysis_type) THEN insights
                   ELSE Append(insights, NewBucket(analysis_type))
        bucket == Lookup(created, analysis_type)
    IN  Put(created, analysis_type,
            [bucket EXCEPT
                !.count = Cardinality({i \in 1..Len(scanned) :
                                          scanned[i].analysis_type = analysis_type}),
                !.last_analysis = memory_entry.timestamp,
                !.key_findings = @ \o SliceTo(memory_entry.key_findings,
                                              InsightFindingsPerUpdate),
                !.patterns = PutAll(@, memory_entry.data_patterns)])

\* faulty variant: all the findings of the entry are accumulated
_update_insights_all_findings(insights, memory_entry) ==
    LET analysis_type == memory_entry.analysis_type
        created == IF HasKey(insights, analysis_type) THEN insights
                   ELSE Append(insights, NewBucket(analysis_type))
        bucket == Lookup(created, analysis_type)
    IN  Put(created, analysis_type,
            [bucket EXCEPT
                !.count = @ + 1,
                !.last_analysis = memory_entry.timestamp,
                !.key_findings = @ \o memory_entry.key_findings,
                !.patterns = PutAll(@, memory_entry.data_patterns)])

\* faulty variant: the patterns of a type are those of its first entry
_update_insights_first_patterns(insights, memory_entry) ==
    LET analysis_type == memory_entry.analysis_type
        created == IF HasKey(insights, analysis_type) THEN insights
                   ELSE Append(insights, NewBucket(analysis_type))
        bucket == Lookup(created, analysis_type)
    IN  Put(created, analysis_type,
            [bucket EXCEPT
                !.count = @ + 1,
                !.last_analysis = memory_entry.timestamp,
                !.key_findings = @ \o SliceTo(memory_entry.key_findings,
                                              InsightFindingsPerUpdate),
                !.patterns = IF bucket.count = 0
                             THEN PutAll(@, memory_entry.data_patterns) ELSE @])

_update_insights(insights, memory_entry) ==
    LET analysis_type == memory_entry.analysis_type
        created == IF HasKey(insights, analysis_type) THEN insights
                   ELSE Append(insights, NewBucket(analysis_type))
        bucket == Lookup(created, analysis_type)
    IN  Put(created, analysis_type,
            [bucket EXCEPT
                !.count = @ + 1,
                !.last_analysis = memory_entry.timestamp,
                !.key_findings = @ \o SliceTo(memory_entry.key_findings,
                                              InsightFindingsPerUpdate),
                !.patterns = PutAll(@, memory_entry.data_patterns)])

\* faulty variant: a type is listed once per pattern
TrackPatternOnce(patterns, pattern, analysis_type) ==
    LET created == IF HasKey(patterns, pattern) THEN patterns
                   ELSE Append(patterns, [key |-> pattern, count |-> 0, analyses |-> <<>>])
        record == Lookup(created, pattern)
    IN  Put(created, pattern,
            [record EXCEPT !.count = @ + 1,
                           !.analyses = IF \E i \in 1..Len(@) : @[i] = analysis_type
                                        THEN @ ELSE Append(@, analysis_type)])

\* one iteration of the loop of _update_global_patterns
TrackPattern(patterns, pattern, analysis_type) ==
    LET created == IF HasKey(patterns, pattern) THEN patterns
                   ELSE Append(patterns, [key |-> pattern, count |-> 0, analyses |-> <<>>])
        record == Lookup(created, pattern)
    IN  Put(created, pattern,
            [record EXCEPT !.count = @ + 1,
                           !.analyses = Append(@, analysis_type)])

RECURSIVE TrackAll(_, _, _)
TrackAll(patterns, items, analysis_type) ==
    IF items = <<>> THEN patterns
    ELSE TrackAll(TrackPattern(patterns, Head(items).key, analysis_type),
                  Tail(items), analysis_type)

_update_global_patterns(patterns, memory_entry) ==
    TrackAll(patterns, memory_entry.data_patterns, memory_entry.analysis_type)

\* what the extractors make of a result bundle: looked up, for a bundle of
\* the catalogue and for the generated sample
Extract(analysis_result) ==
    IF analysis_result \in DOMAIN Extracted THEN Extracted[analysis_result]
    ELSE sample.extracted

\* the entry add_analysis builds
NewEntry(question, analysis_result, analysis_type) ==
    AnalysisMemory(isoformat(now), question, analysis_type,
                   Extract(analysis_result).key_findings,
                   Get(analysis_result, "plots", <<>>),
                   Extract(analysis_result).data_patterns,
                   Extract(analysis_result).recommendations)

(***************************************************************************)
(* The relevance ranker.                                                   *)
(***************************************************************************)
type_keywords ==
    << [key |-> "correlation", keywords |-> <<"correlação", "relação", "correlation", "relaciona">>],
       [key |-> "outlier", keywords |-> <<"outlier", "anomalia", "atípico">>],
       [key |-> "distribution", keywords |-> <<"distribuição", "histograma", "distribution">>],
       [key |-> "clustering", keywords |-> <<"cluster", "agrupamento", "grupo">>],
       [key |-> "temporal", keywords |-> <<"tempo", "temporal", "time", "trend">>],
       [key |-> "conclusions", keywords |-> <<"conclus", "aprend", "insights">>] >>

LexicalScore == 2
TypeScore == 3

\* any(word in entry.question.lower() for word in question_lower.split() if len(word) > 3)
QuestionSimilarity(entry, question_lower) ==
    LET words == SplitWords(question_lower)
    IN  \E i \in 1..Len(words) :
            Len(words[i]) > 3 /\ Contains(Lower(entry.question), words[i])

\* the loop over type_keywords.items() from family i on, with its break
RECURSIVE TypeRelevance(_, _, _)
TypeRelevance(i, entry, question_lower) ==
    IF i > Len(type_keywords) THEN 0
    ELSE IF /\ AnyIn(type_keywords[i].keywords, question_lower)
            /\ entry.analysis_type = type_keywords[i].key
         THEN TypeScore
         ELSE TypeRelevance(i + 1, entry, question_lower)

\* faulty variant: the lexical signal counts once per shared word
relevance_score_per_word(entry, question_lower) ==
    LET words == SplitWords(question_lower)
    IN  LexicalScore * Cardinality({i \in 1..Len(words) :
                                      /\ Len(words[i]) > 3
                                      /\ Contains(Lower(entry.question), words[i])})
        + TypeRelevance(1, entry, question_lower)

relevance_score(entry, question_lower) ==
    (IF QuestionSimilarity(entry, question_lower) THEN LexicalScore ELSE 0)
    + TypeRelevance(1, entry, question_lower)

\* relevance_score, evaluated once per (entry question, entry type, question)
ScoreTable ==
    [eq \in {c.question : c \in Catalogue} \cup AgentQuestions,
     t \in {c.analysis_type : c \in Catalogue}
             \cup {DeterminedType[q] : q \in AgentQuestions},
     q \in Questions \cup AgentQuestions |->
        relevance_score([question |-> eq, analysis_type |-> t], Lower(q))]

Score(entry, question) == ScoreTable[entry.question, entry.analysis_type, question]

\* reversed(seq)
Reversed(seq) == [i \in 1..Len(seq) |-> seq[Len(seq) + 1 - i]]

\* the walk over reversed(history): the (entry, score) pairs of positive score
RECURSIVE RelevantEntries(_, _)
RelevantEntries(entries, question) ==
    IF entries = <<>> THEN <<>>
    ELSE (IF Score(Head(entries), question) > 0
          THEN <<[entry |-> Head(entries), score |-> Score(Head(entries), question)]>>
          ELSE <<>>)
         \o RelevantEntries(Tail(entries), question)

\* faulty variant: x goes ahead of the elements of its own score
RECURSIVE InsertDescUnstable(_, _)
InsertDescUnstable(sorted, x) ==
    IF sorted = <<>> THEN <<x>>
    ELSE IF Head(sorted).score > x.score
         THEN <<Head(sorted)>> \o InsertDescUnstable(Tail(sorted), x)
         ELSE <<x>> \o sorted

\* x put into a list sorted by descending score, after the elements that do
\* not score less (list.sort is stable, also with reverse=True)
RECURSIVE InsertDesc(_, _)
InsertDesc(sorted, x) ==
    IF sorted = <<>> THEN <<x>>
    ELSE IF Head(sorted).score >= x.score
         THEN <<Head(sorted)>> \o InsertDesc(Tail(sorted), x)
         ELSE <<x>> \o sorted

\* faulty variant: the pairs are left in the order of the newest-first walk
Unsorted(pairs) == pairs

\* list.sort(key=lambda x: x[1], reverse=True)
RECURSIVE SortByScoreDesc(_)
SortByScoreDesc(pairs) ==
    IF pairs = <<>> THEN <<>>
    ELSE InsertDesc(SortByScoreDesc(SubSeq(pairs, 1, Len(pairs) - 1)),
                    pairs[Len(pairs)])

\* faulty variant: the whole ordering is returned, whatever n
get_contextual_memory_unsliced(history, question, n) ==
    LET relevant_entries == SortByScoreDesc(RelevantEntries(Reversed(history), question))
    IN  [i \in 1..Len(relevant_entries) |-> relevant_entries[i].entry]

\* faulty variant: the walk is over an entry for every call since the last
\* reset, evicted or not
get_contextual_memory_all_calls(history, question, n) ==
    LET remembered == [i \in 1..Len(calls) |->
                          NewEntry(calls[i].question, calls[i].analysis_result,
                                   calls[i].analysis_type)]
        relevant_entries ==
            SliceTo(SortByScoreDesc(RelevantEntries(Reversed(remembered), question)), n)
    IN  [i \in 1..Len(relevant_entries) |-> relevant_entries[i].entry]

get_contextual_memory(history, question, n) ==
    LET relevant_entries ==
            SliceTo(SortByScoreDesc(RelevantEntries(Reversed(history), question)), n)
    IN  [i \in 1..Len(relevant_entries) |-> relevant_entries[i].entry]

(***************************************************************************)
(* The summary generator.                                                  *)
(***************************************************************************)
\* "\n".join(parts)
RECURSIVE Join(_)
Join(parts) ==
    IF parts = <<>> THEN ""
    ELSE IF Len(parts) = 1 THEN parts[1]
    ELSE parts[1] \o "\n" \o Join(Tail(parts))

\* faulty variant: a type that is counted again moves to the end
RECURSIVE TypeCountsByLast(_, _)
TypeCountsByLast(counts, entries) ==
    IF entries = <<>> THEN counts
    ELSE LET t == Head(entries).analysis_type
             others == SelectSeq(counts, LAMBDA r : r.key # t)
         IN  TypeCountsByLast(
                Append(others,
                       [key |-> t,
                        count |-> (IF HasKey(counts, t) THEN Lookup(counts, t).count
                                   ELSE 0) + 1]),
                Tail(entries))

\* type_counts[t] = type_counts.get(t, 0) + 1, over the entries in order
RECURSIVE TypeCounts(_, _)
TypeCounts(counts, entries) ==
    IF entries = <<>> THEN counts
    ELSE TypeCounts(
            Put(counts, Head(entries).analysis_type,
                [key |-> Head(entries).analysis_type,
                 count |-> (IF HasKey(counts, Head(entries).analysis_type)
                            THEN Lookup(counts, Head(entries).analysis_type).count
                            ELSE 0) + 1]),
            Tail(entries))

NoAnalysesSummary == "Nenhuma análise realizada ainda."

\* faulty variant: the emptiness test looks at the pattern tracker
generate_summary_by_patterns(history, patterns) ==
    IF patterns = <<>> THEN NoAnalysesSummary
    ELSE Join(<<"## Resumo das Análises Realizadas\n",
                "Total de análises: " \o ToString(Len(history)) \o "\n",
                "\n### Tipos de Análises:">>)

generate_summary(history, patterns) ==
    IF history = <<>> THEN NoAnalysesSummary
    ELSE LET type_counts == TypeCounts(<<>>, history)
         IN  Join(<<"## Resumo das Análises Realizadas\n",
                    "Total de análises: " \o ToString(Len(history)) \o "\n",
                    "\n### Tipos de Análises:">>
                  \o [i \in 1..Len(type_counts) |->
                        "- " \o type_counts[i].key \o ": "
                        \o ToString(type_counts[i].count) \o " análises"]
                  \o (IF patterns # <<>>
                      THEN <<"\n### Padrões Identificados:">>
                           \o [i \in 1..Len(patterns) |->
                                 "- " \o patterns[i].key \o ": detectado em "
                                 \o ToString(patterns[i].count) \o " análises"]
                      ELSE <<>>))

(***************************************************************************)
(* The conclusion synthesizer.  It returns "\n".join(conclusions); the     *)
(* model keeps the list conclusions, one record per line or group of       *)
(* lines, because the code iterates over Python sets, whose order is not   *)
(* fixed:                                                                  *)
(*   [line |-> s]                    the line s                            *)
(*   [line |-> p, joined |-> S]      one line: p, then the elements of the *)
(*                                   set S in some order, joined by ", "   *)
(*   [line |-> p, some |-> S, limit |-> k]                                 *)
(*                                   min(k, |S|) lines, each p followed by *)
(*                                   a different element of S, some order  *)
(***************************************************************************)
L(s) == [line |-> s]

\* set(seq)
Range(seq) == {seq[i] : i \in 1..Len(seq)}

UpperChar(c) ==
    IF \E i \in 1..Len(LowerChars) : LowerChars[i] = c
    THEN UpperChars[CHOOSE i \in 1..Len(LowerChars) : LowerChars[i] = c]
    ELSE c

IsLetter(c) == \E i \in 1..Len(LowerChars) : LowerChars[i] = c \/ UpperChars[i] = c

\* str.title() from a position on: a letter is upper-cased when no letter
\* precedes it and lower-cased otherwise
RECURSIVE TitleFrom(_, _)
TitleFrom(s, after_letter) ==
    IF Len(s) = 0 THEN ""
    ELSE (IF after_letter THEN LowerChar(SubSeq(s, 1, 1)) ELSE UpperChar(SubSeq(s, 1, 1)))
         \o TitleFrom(SubSeq(s, 2, Len(s)), IsLetter(SubSeq(s, 1, 1)))

Title(s) == TitleFrom(s, FALSE)

\* s.replace(old, new) for a single character old
RECURSIVE Replace(_, _, _)
Replace(s, old, new) ==
    IF Len(s) = 0 THEN ""
    ELSE (IF SubSeq(s, 1, 1) = old THEN new ELSE SubSeq(s, 1, 1))
         \o Replace(SubSeq(s, 2, Len(s)), old, new)

\* the keys _extract_patterns can emit
PatternVocabulary ==
    {"has_correlations", "strong_correlations", "has_outliers", "many_outliers",
     "asymmetric_distributions", "has_clusters", "has_temporal_patterns"}

\* pattern.replace('_', ' ').title() and atype.title(), evaluated once per name
TitleTable ==
    [name \in PatternVocabulary \cup {c.analysis_type : c \in Catalogue}
               \cup {DeterminedType[q] : q \in AgentQuestions} |->
        Title(Replace(name, "_", " "))]

\* seqs[1] \o seqs[2] \o ...
RECURSIVE Flatten(_)
Flatten(seqs) == IF seqs = <<>> THEN <<>> ELSE Head(seqs) \o Flatten(Tail(seqs))

\* the six analysis types section 9 expects
all_types == {"correlation", "outlier", "distribution", "clustering", "temporal", "summary"}

type_descriptions ==
    [mtype \in all_types |->
        CASE mtype = "correlation" -> "Análise de correlações para entender relacionamentos"
          [] mtype = "outlier" -> "Detecção de outliers para identificar anomalias"
          [] mtype = "distribution" -> "Análise de distribuições para entender padrões"
          [] mtype = "clustering" -> "Clustering para identificar segmentos"
          [] mtype = "temporal" -> "Análise temporal para identificar tendências"
          [] mtype = "summary" -> "Resumo geral dos dados"]

MaxFindingsPerType == 5
MaxConsolidatedRecommendations == 8

NoAnalysesConclusions ==
    "Nenhuma análise foi realizada ainda. Por favor, faça algumas análises primeiro."

\* sections 1 to 3: the overview, the global patterns, the findings per type
ConclusionsOverview(history, insights, patterns) ==
    LET type_counts == TypeCounts(<<>>, history)
    IN  <<L("# Conclusões Consolidadas da Análise Exploratória de Dados\n"),
          L("*Baseado em " \o ToString(Len(history)) \o " análises realizadas*\n"),
          L("## 1. Resumo das Análises Realizadas")>>
        \o [i \in 1..Len(type_counts) |->
              L("- **" \o type_counts[i].key \o "**: "
                \o ToString(type_counts[i].count) \o " análise(s)")]
        \o <<L(""), L("## 2. Principais Padrões Identificados")>>
        \o (IF patterns # <<>>
            THEN Flatten([i \in 1..Len(patterns) |->
                    <<L("- **" \o TitleTable[patterns[i].key] \o "**: Identificado em "
                        \o ToString(patterns[i].count) \o " análise(s)"),
                      [line |-> "  - Detectado em: ",
                       joined |-> Range(patterns[i].analyses)]>>])
            ELSE <<L("- Nenhum padrão global identificado ainda")>>)
        \o <<L(""), L("## 3. Principais Descobertas por Tipo de Análise")>>
        \o Flatten([i \in 1..Len(insights) |->
              IF insights[i].key_findings # <<>>
              THEN <<L("\n### " \o TitleTable[insights[i].key] \o ":"),
                     [line |-> "  ", some |-> Range(insights[i].key_findings),
                      limit |-> MaxFindingsPerType]>>
              ELSE <<>>])
        \o <<L("")>>

\* faulty variant: sections 6 and 7 keep their header when their pattern is
\* not tracked
ConclusionsNarrativesAllHeaders(patterns) ==
    LET quality_issues ==
            (IF HasKey(patterns, "has_outliers")
             THEN <<L("- Outliers detectados: Podem indicar problemas de qualidade ou valores genuinamente extremos")>>
             ELSE <<>>)
            \o (IF HasKey(patterns, "many_outliers")
                THEN <<L("- Alta concentração de outliers: Requer investigação aprofundada")>>
                ELSE <<>>)
            \o (IF HasKey(patterns, "asymmetric_distributions")
                THEN <<L("- Distribuições assimétricas: Considere transformações para normalização")>>
                ELSE <<>>)
    IN  <<L("## 4. Insights sobre Qualidade dos Dados")>>
        \o (IF quality_issues # <<>> THEN quality_issues
            ELSE <<L("- Dados aparentam boa qualidade geral")>>)
        \o <<L(""), L("## 5. Relacionamentos entre Variáveis")>>
        \o (IF HasKey(patterns, "has_correlations")
            THEN <<L("- Correlações significativas foram identificadas entre variáveis")>>
                 \o (IF HasKey(patterns, "strong_correlations")
                     THEN <<L("- Algumas correlações são particularmente fortes"),
                            L("- **Recomendação**: Considere análise de multicolinearidade para modelagem")>>
                     ELSE <<>>)
            ELSE <<L("- Variáveis aparentam ser relativamente independentes")>>)
        \o <<L(""), L("## 6. Segmentação e Agrupamentos")>>
        \o (IF HasKey(patterns, "has_clusters")
            THEN <<L("- Clusters distintos foram identificados nos dados"),
                   L("- **Oportunidade**: Use segmentação para análises direcionadas")>>
            ELSE <<>>)
        \o <<L(""), L("## 7. Padrões Temporais")>>
        \o (IF HasKey(patterns, "has_temporal_patterns")
            THEN <<L("- Tendências temporais foram identificadas"),
                   L("- **Recomendação**: Considere análise de séries temporais")>>
            ELSE <<>>)
        \o <<L("")>>

\* faulty variant: the narratives are keyed off the patterns of the entries
\* now in the history
ConclusionsNarrativesFromHistory(patterns) ==
    LET present(k) == \E i \in 1..Len(analysis_history) :
                          HasKey(analysis_history[i].data_patterns, k)
        quality_issues ==
            (IF present("has_outliers")
             THEN <<L("- Outliers detectados: Podem indicar problemas de qualidade ou valores genuinamente extremos")>>
             ELSE <<>>)
            \o (IF present("many_outliers")
                THEN <<L("- Alta concentração de outliers: Requer investigação aprofundada")>>
                ELSE <<>>)
            \o (IF present("asymmetric_distributions")
                THEN <<L("- Distribuições assimétricas: Considere transformações para normalização")>>
                ELSE <<>>)
    IN  <<L("## 4. Insights sobre Qualidade dos Dados")>>
        \o (IF quality_issues # <<>> THEN quality_issues
            ELSE <<L("- Dados aparentam boa qualidade geral")>>)
        \o <<L(""), L("## 5. Relacionamentos entre Variáveis")>>
        \o (IF present("has_correlations")
            THEN <<L("- Correlações significativas foram identificadas entre variáveis")>>
                 \o (IF present("strong_correlations")
                     THEN <<L("- Algumas correlações são particularmente fortes"),
                            L("- **Recomendação**: Considere análise de multicolinearidade para modelagem")>>
                     ELSE <<>>)
            ELSE <<L("- Variáveis aparentam ser relativamente independentes")>>)
        \o <<L("")>>
        \o (IF present("has_clusters")
            THEN <<L("## 6. Segmentação e Agrupamentos"),
                   L("- Clusters distintos foram identificados nos dados"),
                   L("- **Oportunidade**: Use segmentação para análises direcionadas"),
                   L("")>>
            ELSE <<>>)
        \o (IF present("has_temporal_patterns")
            THEN <<L("## 7. Padrões Temporais"),
                   L("- Tendências temporais foram identificadas"),
                   L("- **Recomendação**: Considere análise de séries temporais"),
                   L("")>>
            ELSE <<>>)

\* sections 4 to 7: the narratives keyed off the pattern tracker
ConclusionsNarratives(patterns) ==
    LET quality_issues ==
            (IF HasKey(patterns, "has_outliers")
             THEN <<L("- Outliers detectados: Podem indicar problemas de qualidade ou valores genuinamente extremos")>>
             ELSE <<>>)
            \o (IF HasKey(patterns, "many_outliers")
                THEN <<L("- Alta concentração de outliers: Requer investigação aprofundada")>>
                ELSE <<>>)
            \o (IF HasKey(patterns, "asymmetric_distributions")
                THEN <<L("- Distribuições assimétricas: Considere transformações para normalização")>>
                ELSE <<>>)
    IN  <<L("## 4. Insights sobre Qualidade dos Dados")>>
        \o (IF quality_issues # <<>> THEN quality_issues
            ELSE <<L("- Dados aparentam boa qualidade geral")>>)
        \o <<L(""), L("## 5. Relacionamentos entre Variáveis")>>
        \o (IF HasKey(patterns, "has_correlations")
            THEN <<L("- Correlações significativas foram identificadas entre variáveis")>>
                 \o (IF HasKey(patterns, "strong_correlations")
                     THEN <<L("- Algumas correlações são particularmente fortes"),
                            L("- **Recomendação**: Considere análise de multicolinearidade para modelagem")>>
                     ELSE <<>>)
            ELSE <<L("- Variáveis aparentam ser relativamente independentes")>>)
        \o <<L("")>>
        \o (IF HasKey(patterns, "has_clusters")
            THEN <<L("## 6. Segmentação e Agrupamentos"),
                   L("- Clusters distintos foram identificados nos dados"),
                   L("- **Oportunidade**: Use segmentação para análises direcionadas"),
                   L("")>>
            ELSE <<>>)
        \o (IF HasKey(patterns, "has_temporal_patterns")
            THEN <<L("## 7. Padrões Temporais"),
                   L("- Tendências temporais foram identificadas"),
                   L("- **Recomendação**: Considere análise de séries temporais"),
                   L("")>>
            ELSE <<>>)

\* faulty variant: every distinct recommendation is listed, however many
ConclusionsNextStepsUncapped(history) ==
    LET all_recommendations ==
            Flatten([i \in 1..Len(history) |-> history[i].recommendations])
        performed_types == Keys(TypeCounts(<<>>, history))
        missing_types == all_types \ performed_types
    IN  <<L("## 8. Recomendações Consolidadas")>>
        \o (IF all_recommendations # <<>>
            THEN <<[line |-> "", some |-> Range(all_recommendations),
                    limit |-> Len(all_recommendations)]>>
            ELSE <<L("- Continue explorando os dados com análises mais específicas")>>)
        \o <<L(""), L("## 9. Próximos Passos Sugeridos")>>
        \o (IF missing_types # {}
            THEN <<L("### Análises Recomendadas:"),
                   [line |-> "- ", some |-> {type_descriptions[m] : m \in missing_types},
                    limit |-> Cardinality(missing_types)]>>
            ELSE <<>>)
        \o <<L("\n### Ações Gerais:"),
             L("- Validar descobertas com stakeholders"),
             L("- Documentar insights para referência futura"),
             L("- Considerar análises preditivas se apropriado")>>

\* sections 8 and 9: the consolidated recommendations and the next steps
ConclusionsNextSteps(history) ==
    LET all_recommendations ==
            Flatten([i \in 1..Len(history) |-> history[i].recommendations])
        performed_types == Keys(TypeCounts(<<>>, history))
        missing_types == all_types \ performed_types
    IN  <<L("## 8. Recomendações Consolidadas")>>
        \o (IF all_recommendations # <<>>
            THEN <<[line |-> "", some |-> Range(all_recommendations),
                    limit |-> MaxConsolidatedRecommendations]>>
            ELSE <<L("- Continue explorando os dados com análises mais específicas")>>)
        \o <<L(""), L("## 9. Próximos Passos Sugeridos")>>
        \o (IF missing_types # {}
            THEN <<L("### Análises Recomendadas:"),
                   [line |-> "- ", some |-> {type_descriptions[m] : m \in missing_types},
                    limit |-> Cardinality(missing_types)]>>
            ELSE <<>>)
        \o <<L("\n### Ações Gerais:"),
             L("- Validar descobertas com stakeholders"),
             L("- Documentar insights para referência futura"),
             L("- Considerar análises preditivas se apropriado")>>

generate_comprehensive_conclusions(history, insights, patterns) ==
    IF history = <<>> THEN <<L(NoAnalysesConclusions)>>
    ELSE ConclusionsOverview(history, insights, patterns)
         \o ConclusionsNarratives(patterns)
         \o ConclusionsNextSteps(history)

(***************************************************************************)
(* Init: EDAAgent.__init__ has built self.memory.  The constructor takes   *)
(* the capacity as a parameter.                                            *)
(***************************************************************************)
Init ==
    /\ max_interactions \in 1..MaxCapacity
    /\ analysis_history = <<>>
    /\ data_insights = <<>>
    /\ conversation_summary = ""
    /\ global_patterns = <<>>
    /\ now = 0
    /\ ret = [op |-> "__init__"]
    /\ calls = <<>>
    /\ sample = NoSample
    /\ agent = NoCall

\* time passes
Tick ==
    /\ now < MaxNow
    /\ now' = now + 1
    /\ UNCHANGED <<max_interactions, session, ret, calls, sample, agent>>

\* faulty variant: once the history is full the entry is appended, but the
\* aggregator and the tracker are left as they are
add_analysis_history_only_when_full(question, analysis_result, analysis_type) ==
    LET memory_entry == NewEntry(question, analysis_result, analysis_type)
        full == Len(analysis_history) = max_interactions
    IN  IF Extract(analysis_result).raises
        THEN /\ ret' = [op |-> "add_analysis", raised |-> TRUE]
             /\ UNCHANGED <<max_interactions, session, now>>
        ELSE /\ analysis_history' =
                    DequeAppend(analysis_history, max_interactions, memory_entry)
             /\ data_insights' = IF full THEN data_insights
                                 ELSE _update_insights(data_insights, memory_entry)
             /\ global_patterns' = IF full THEN global_patterns
                                   ELSE _update_global_patterns(global_patterns, memory_entry)
             /\ ret' = [op |-> "add_analysis", raised |-> FALSE]
             /\ UNCHANGED <<max_interactions, conversation_summary, now>>

\* an exception of an extractor leaves add_analysis before its first update
add_analysis(question, analysis_result, analysis_type) ==
    LET memory_entry == NewEntry(question, analysis_result, analysis_type)
    IN  IF Extract(analysis_result).raises
        THEN /\ ret' = [op |-> "add_analysis", raised |-> TRUE]
             /\ UNCHANGED <<max_interactions, session, now>>
        ELSE /\ analysis_history' =
                    DequeAppend(analysis_history, max_interactions, memory_entry)
             /\ data_insights' = _update_insights(data_insights, memory_entry)
             /\ global_patterns' = _update_global_patterns(global_patterns, memory_entry)
             /\ ret' = [op |-> "add_analysis", raised |-> FALSE]
             /\ UNCHANGED <<max_interactions, conversation_summary, now>>

AddAnalysis ==
    \E c \in Catalogue :
        /\ Len(calls) < MaxCalls
        /\ add_analysis(c.question, c.analysis_result, c.analysis_type)
        /\ calls' = Append(calls, c)
        /\ UNCHANGED <<sample, agent>>

\* faulty variant: the pattern tracker is not cleared
clear_keeping_patterns ==
    /\ analysis_history' = <<>>
    /\ data_insights' = <<>>
    /\ conversation_summary' = ""
    /\ ret' = [op |-> "clear", discarded |-> Len(calls)]
    /\ calls' = <<>>
    /\ UNCHANGED <<max_interactions, now, sample, agent, global_patterns>>

\* EnhancedSessionMemory.clear
clear ==
    /\ analysis_history' = <<>>
    /\ data_insights' = <<>>
    /\ conversation_summary' = ""
    /\ global_patterns' = <<>>
    /\ ret' = [op |-> "clear", discarded |-> Len(calls)]
    /\ calls' = <<>>
    /\ UNCHANGED <<max_interactions, now, sample, agent>>

\* EDAAgent.clear_memory: self.memory = EnhancedSessionMemory()
clear_memory ==
    /\ max_interactions' = DefaultMaxInteractions
    /\ analysis_history' = <<>>
    /\ data_insights' = <<>>
    /\ conversation_summary' = ""
    /\ global_patterns' = <<>>
    /\ ret' = [op |-> "clear_memory", discarded |-> Len(calls)]
    /\ calls' = <<>>
    /\ UNCHANGED <<now, sample, agent>>

\* faulty variant: the findings of the stored entries are cut to the one
\* that is quoted as context
GetContextualMemoryTrimming ==
    \E question \in Questions, n \in Ns :
        /\ ret' = [op |-> "get_contextual_memory", question |-> question, n |-> n,
                   value |-> get_contextual_memory(analysis_history, question, n)]
        /\ analysis_history' =
              [i \in 1..Len(analysis_history) |->
                  [analysis_history[i] EXCEPT !.key_findings = SliceTo(@, 1)]]
        /\ UNCHANGED <<max_interactions, data_insights, conversation_summary,
                       global_patterns, now, calls, sample, agent>>

GetContextualMemory ==
    \E question \in Questions, n \in Ns :
        /\ ret' = [op |-> "get_contextual_memory", question |-> question, n |-> n,
                   value |-> get_contextual_memory(analysis_history, question, n)]
        /\ UNCHANGED <<max_interactions, session, now, calls, sample, agent>>

\* faulty variant: the summary reports the tracked patterns and resets them
GenerateSummaryResetting ==
    /\ ret' = [op |-> "generate_summary",
               value |-> generate_summary(analysis_history, global_patterns)]
    /\ global_patterns' = <<>>
    /\ UNCHANGED <<max_interactions, analysis_history, data_insights,
                   conversation_summary, now, calls, sample, agent>>

GenerateSummary ==
    /\ ret' = [op |-> "generate_summary",
               value |-> generate_summary(analysis_history, global_patterns)]
    /\ UNCHANGED <<max_interactions, session, now, calls, sample, agent>>

\* faulty variant: the findings of every type are cut to the five that the
\* conclusions show
GenerateConclusionsTrimming ==
    /\ ret' = [op |-> "generate_comprehensive_conclusions",
               value |-> generate_comprehensive_conclusions(
                            analysis_history, data_insights, global_patterns)]
    /\ data_insights' =
          [i \in 1..Len(data_insights) |->
              [data_insights[i] EXCEPT !.key_findings = SliceTo(@, MaxFindingsPerType)]]
    /\ UNCHANGED <<max_interactions, analysis_history, conversation_summary,
                   global_patterns, now, calls, sample, agent>>

GenerateConclusions ==
    /\ ret' = [op |-> "generate_comprehensive_conclusions",
               value |-> generate_comprehensive_conclusions(
                            analysis_history, data_insights, global_patterns)]
    /\ UNCHANGED <<max_interactions, session, now, calls, sample, agent>>

Next ==
    \/ Tick
    \/ AddAnalysis
    \/ GetContextualMemory
    \/ GenerateSummary
    \/ GenerateConclusions
    \/ clear
    \/ clear_memory

Spec == Init /\ [][Next]_vars

(***************************************************************************)
(* SpecText: the extractors on generated texts.  A text is built from      *)
(* keyword fragments (mode "frags"), from bullet lines, a heading and      *)
(* hyphen lines (mode "lines") or from pieces with recommendation markers  *)
(* (mode "markers"), from lines that are or are not findings (mode         *)
(* "findings"), or is left out of the bundle (mode "missing"); the bundle  *)
(* is then handed to add_analysis and the conclusions are rendered.        *)
(***************************************************************************)
InitText ==
    /\ max_interactions = DefaultMaxInteractions
    /\ analysis_history = <<>>
    /\ data_insights = <<>>
    /\ conversation_summary = ""
    /\ global_patterns = <<>>
    /\ now = 0
    /\ ret = [op |-> "__init__"]
    /\ calls = <<>>
    /\ sample \in {MakeSample(mode, <<>>) :
                       mode \in {"frags", "lines", "markers", "findings", "missing"}}
    /\ agent = NoCall

Grow(frag) ==
    /\ calls = <<>>
    /\ sample' = MakeSample(sample.mode, Append(sample.frags, frag))
    /\ UNCHANGED <<max_interactions, session, now, ret, calls, agent>>

AppendFragment ==
    \E i \in 1..Len(Fragments) :
        /\ sample.mode = "frags"
        /\ Len(sample.frags) < MaxFrags
        /\ \A j \in i..Len(Fragments) :
              \A k \in 1..Len(sample.frags) : sample.frags[k] # Fragments[j]
        /\ Grow(Fragments[i])

AppendMarker ==
    \E i \in 1..Len(MarkerFragments) :
        /\ sample.mode = "markers"
        /\ Len(sample.frags) < MaxFrags
        /\ Grow(MarkerFragments[i])

AppendFinding ==
    \E i \in 1..Len(FindingFragments) :
        /\ sample.mode = "findings"
        /\ Len(sample.frags) < MaxFrags
        /\ Grow(FindingFragments[i])

AppendBullet ==
    /\ sample.mode = "lines"
    /\ \A i \in 1..Len(sample.frags) : sample.frags[i] = BulletLine
    /\ Len(sample.frags) < MaxLines
    /\ Grow(BulletLine)

AppendHeading ==
    /\ sample.mode = "lines"
    /\ \A i \in 1..Len(sample.frags) : sample.frags[i] = BulletLine
    /\ Grow(HeadingLine)

AppendRec ==
    /\ sample.mode = "lines"
    /\ \E i \in 1..Len(sample.frags) : sample.frags[i] = HeadingLine
    /\ Cardinality({i \in 1..Len(sample.frags) : sample.frags[i] = RecLine}) < MaxLines
    /\ Grow(RecLine)

SampleCall ==
    [question |-> "Pergunta", analysis_type |-> "general",
     analysis_result |-> sample.bundle]

AddSample ==
    /\ calls = <<>>
    /\ add_analysis(SampleCall.question, SampleCall.analysis_result,
                    SampleCall.analysis_type)
    /\ calls' = <<SampleCall>>
    /\ UNCHANGED <<sample, agent>>

NextText ==
    \/ AppendFragment
    \/ AppendMarker
    \/ AppendFinding
    \/ AppendBullet
    \/ AppendHeading
    \/ AppendRec
    \/ AddSample
    \/ GenerateConclusions

SpecText == InitText /\ [][NextText]_vars

(***************************************************************************)
(* SpecRecs: sessions over a second catalogue, whose results carry many    *)
(* recommendations or patterns of one family under several types.          *)
(***************************************************************************)
AddRecs ==
    \E c \in RecCatalogue :
        /\ Len(calls) < MaxCalls
        /\ add_analysis(c.question, c.analysis_result, c.analysis_type)
        /\ calls' = Append(calls, c)
        /\ UNCHANGED <<sample, agent>>

NextRecs ==
    \/ AddRecs
    \/ GenerateConclusions
    \/ clear

SpecRecs == Init /\ [][NextRecs]_vars

(***************************************************************************)
(* SpecAgent: EDAAgent.analyze over the session memory.  The call is two   *)
(* steps, before and after the agent executor runs; while it runs, the     *)
(* executor may call the tools that read the memory.  The orchestrator     *)
(* handles one question at a time, so no other call runs in between.       *)
(***************************************************************************)
\* question + context (lines 212 to 218)
EnhancedQuestion(question, relevant_memory) ==
    question
    \o (IF relevant_memory = <<>> THEN ""
        ELSE "\n\nContexto de análises anteriores:\n"
             \o Concat([i \in 1..Len(relevant_memory) |->
                    "- " \o relevant_memory[i].question \o ": "
                    \o JoinWith(SliceTo(relevant_memory[i].key_findings, ContextFindings),
                                ", ")
                    \o "\n"]))

\* faulty variant: the plots of the call before are not cleared
AnalyzeBeginKeepingPlots ==
    \E question \in AgentQuestions :
        /\ agent.pc = "idle"
        /\ Len(calls) < MaxCalls
        /\ ret' = [op |-> "get_contextual_memory", question |-> question, n |-> DefaultN,
                   value |-> get_contextual_memory(analysis_history, question, DefaultN)]
        /\ agent' = [pc |-> "invoke", question |-> question,
                     generated_plots |-> Get(agent, "generated_plots", <<>>),
                     relevant_memory |-> ret'.value,
                     enhanced_question |-> EnhancedQuestion(question, ret'.value)]
        /\ UNCHANGED <<max_interactions, session, now, calls, sample>>

\* analyze up to self.agent.invoke: the plots are cleared, the ranker is
\* queried and the question is extended with the context
AnalyzeBegin ==
    \E question \in AgentQuestions :
        /\ agent.pc = "idle"
        /\ Len(calls) < MaxCalls
        /\ ret' = [op |-> "get_contextual_memory", question |-> question, n |-> DefaultN,
                   value |-> get_contextual_memory(analysis_history, question, DefaultN)]
        /\ agent' = [pc |-> "invoke", question |-> question,
                     generated_plots |-> <<>>,
                     relevant_memory |-> ret'.value,
                     enhanced_question |-> EnhancedQuestion(question, ret'.value)]
        /\ UNCHANGED <<max_interactions, session, now, calls, sample>>

\* memory_summary_tool, called by the executor while it answers
MemorySummaryTool ==
    /\ agent.pc = "invoke"
    /\ ret' = [op |-> "generate_summary",
               value |-> generate_summary(analysis_history, global_patterns)]
    /\ UNCHANGED <<max_interactions, session, now, calls, sample, agent>>

\* generate_conclusions_tool, called by the executor while it answers
GenerateConclusionsTool ==
    /\ agent.pc = "invoke"
    /\ ret' = [op |-> "generate_comprehensive_conclusions",
               value |-> generate_comprehensive_conclusions(
                            analysis_history, data_insights, global_patterns)]
    /\ UNCHANGED <<max_interactions, session, now, calls, sample, agent>>

\* self.generated_plots once the tools of outcome o have run
PlotsAfter(o) == PlotsUpdate(agent.generated_plots, o.plots)

\* the analysis_result of lines 227 to 232, for outcome o
AnalysisResult(o) == [AgentBundles[o] EXCEPT !.plots = PlotsAfter(o)]

\* what analyze returns from its except branch
Failure == [success |-> FALSE, plots |-> <<>>]

\* faulty variant: the analysis is stored before it is known to have
\* succeeded, with whatever text there is
AnalyzeFinishStoringFirst ==
    \E o \in AgentOutcomes :
        /\ agent.pc = "invoke"
        /\ IF o.raises
           THEN /\ add_analysis(agent.question, [plots |-> <<>>],
                                DeterminedType[agent.question])
                /\ calls' = Append(calls, [question |-> agent.question,
                                           analysis_result |-> [plots |-> <<>>],
                                           analysis_type |-> DeterminedType[agent.question]])
                /\ agent' = [pc |-> "idle", generated_plots |-> PlotsAfter(o), outcome |-> o,
                             result |-> Failure]
           ELSE /\ add_analysis(agent.question, AnalysisResult(o),
                                DeterminedType[agent.question])
                /\ calls' = Append(calls, [question |-> agent.question,
                                           analysis_result |-> AnalysisResult(o),
                                           analysis_type |-> DeterminedType[agent.question]])
                /\ agent' = [pc |-> "idle", generated_plots |-> PlotsAfter(o), outcome |-> o,
                             result |-> [success |-> TRUE, analysis |-> o.output,
                                         plots |-> PlotsAfter(o),
                                         analysis_type |-> DeterminedType[agent.question],
                                         memory_context |-> Len(agent.relevant_memory)]]
        /\ UNCHANGED sample

\* analyze from self.agent.invoke on: an exception of the executor, or of
\* any later step, ends in the except branch; otherwise the analysis is
\* stored and reported
AnalyzeFinish ==
    \E o \in AgentOutcomes :
        /\ agent.pc = "invoke"
        /\ IF o.raises
           THEN /\ agent' = [pc |-> "idle", generated_plots |-> PlotsAfter(o), outcome |-> o,
                             result |-> Failure]
                /\ UNCHANGED <<max_interactions, session, now, ret, calls>>
           ELSE /\ add_analysis(agent.question, AnalysisResult(o),
                                DeterminedType[agent.question])
                /\ calls' = IF ret'.raised THEN calls
                            ELSE Append(calls, [question |-> agent.question,
                                                analysis_result |-> AnalysisResult(o),
                                                analysis_type |-> DeterminedType[agent.question]])
                /\ agent' = [pc |-> "idle", generated_plots |-> PlotsAfter(o), outcome |-> o,
                             result |-> IF ret'.raised THEN Failure
                                        ELSE [success |-> TRUE, analysis |-> o.output,
                                              plots |-> PlotsAfter(o),
                                              analysis_type |-> DeterminedType[agent.question],
                                              memory_context |-> Len(agent.relevant_memory)]]
        /\ UNCHANGED sample

\* EDAAgent.clear_memory, between two questions
AgentClearMemory == agent.pc = "idle" /\ clear_memory

NextAgent ==
    \/ AnalyzeBegin
    \/ MemorySummaryTool
    \/ GenerateConclusionsTool
    \/ AnalyzeFinish
    \/ AgentClearMemory
    \/ Tick

SpecAgent == Init /\ [][NextAgent]_vars

(***************************************************************************)
(* Properties.                                                             *)
(***************************************************************************)
Last(seq) == seq[Len(seq)]

\* a step in which add_analysis was called
AddStep == Len(calls') = Len(calls) + 1

\* the analysis types of the model's inputs
Types == {c.analysis_type : c \in Catalogue}

\* the number of add_analysis calls of a type since the last reset
CallsOfType(t) == Cardinality({i \in 1..Len(calls) : calls[i].analysis_type = t})

InsightCount(insights, t) == IF HasKey(insights, t) THEN Lookup(insights, t).count ELSE 0

\* the entry is the one add_analysis builds from the call, whatever the time
EntryOfCall(entry, c) ==
    /\ entry.question = c.question
    /\ entry.analysis_type = c.analysis_type
    /\ entry.key_findings = Extract(c.analysis_result).key_findings
    /\ entry.visualizations = Get(c.analysis_result, "plots", <<>>)
    /\ entry.data_patterns = Extract(c.analysis_result).data_patterns
    /\ entry.recommendations = Extract(c.analysis_result).recommendations

\* C1: the history never holds more than max_interactions entries, and an
\* add_analysis on a full history drops exactly the oldest entry, appends the
\* new one and raises nothing.
C1_BoundedFifo ==
    /\ [](Len(analysis_history) <= max_interactions)
    /\ [][(AddStep /\ Len(analysis_history) = max_interactions)
            => /\ ret'.op = "add_analysis" /\ ~ret'.raised
               /\ Len(analysis_history') = max_interactions
               /\ SubSeq(analysis_history', 1, max_interactions - 1)
                    = Tail(analysis_history)
               /\ EntryOfCall(Last(analysis_history'), Last(calls'))]_vars

\* an add_analysis on a full history has just evicted an entry
C1_Witness ==
    /\ ret.op = "add_analysis" /\ ~ret.raised
    /\ Len(calls) > max_interactions
    /\ Len(analysis_history) = max_interactions

\* C2: the history holds the entries of the last min(N, capacity) of the N
\* add_analysis calls since the last reset, in the order of the calls (so
\* for N > capacity exactly the last capacity ones, oldest first).
C2_LastCallsInOrder ==
    /\ Len(analysis_history) = Min(Len(calls), max_interactions)
    /\ \A i \in 1..Len(analysis_history) :
          EntryOfCall(analysis_history[i],
                      calls[Len(calls) - Len(analysis_history) + i])

\* more calls than the capacity, with different inputs, answered by queries
C2_Witness ==
    /\ Len(calls) > max_interactions
    /\ max_interactions >= 2
    /\ calls[Len(calls)] # calls[Len(calls) - 1]
    /\ calls[1] # calls[Len(calls) - 1]
    /\ ret.op = "get_contextual_memory"

\* C3: the aggregator's count of every type is the number of add_analysis
\* calls of that type since the last reset, whatever the history has evicted.
C3_CountsSurviveEviction ==
    /\ Keys(data_insights) \subseteq Types
    /\ \A t \in Types : InsightCount(data_insights, t) = CallsOfType(t)

\* capacity + 1 adds of type correlation: the count is capacity + 1, the
\* history holds capacity entries
C3_Witness ==
    /\ Len(calls) = max_interactions + 1
    /\ \A i \in 1..Len(calls) : calls[i].analysis_type = "correlation"
    /\ Len(analysis_history) = max_interactions
    /\ InsightCount(data_insights, "correlation") = max_interactions + 1

PatternRecord(patterns, p) ==
    IF HasKey(patterns, p) THEN Lookup(patterns, p)
    ELSE [key |-> p, count |-> 0, analyses |-> <<>>]

\* C4: an add_analysis adds 1 to the count of each pattern of its entry and
\* appends the entry's type to that pattern's analyses, and leaves every other
\* pattern as it was; count = len(analyses) for every tracked pattern; one
\* 'correlation' add with "correlação forte" on a fresh session gives
\* has_correlations and strong_correlations count 1, analyses ['correlation'].
C4_PatternTracker ==
    /\ [](\A i \in 1..Len(global_patterns) :
            global_patterns[i].count = Len(global_patterns[i].analyses))
    /\ [](calls = <<CorrelationCall>>
            => /\ Keys(global_patterns) = {"has_correlations", "strong_correlations"}
               /\ \A i \in 1..Len(global_patterns) :
                     /\ global_patterns[i].count = 1
                     /\ global_patterns[i].analyses = <<"correlation">>)
    /\ [][AddStep
            => \A p \in PatternVocabulary :
                  IF p \in Keys(Last(analysis_history').data_patterns)
                  THEN /\ HasKey(global_patterns', p)
                       /\ Lookup(global_patterns', p).count
                            = PatternRecord(global_patterns, p).count + 1
                       /\ Lookup(global_patterns', p).analyses
                            = Append(PatternRecord(global_patterns, p).analyses,
                                     Last(analysis_history').analysis_type)
                  ELSE /\ HasKey(global_patterns', p) <=> HasKey(global_patterns, p)
                       /\ PatternRecord(global_patterns', p)
                            = PatternRecord(global_patterns, p)]_vars

\* a pattern met twice by adds of the same type
C4_Witness ==
    /\ ret.op = "add_analysis"
    /\ HasKey(global_patterns, "strong_correlations")
    /\ Lookup(global_patterns, "strong_correlations").analyses
         = <<"correlation", "correlation">>
    /\ HasKey(global_patterns, "has_outliers")

\* C5: after a reset the history, the aggregator and the tracker are all
\* empty; the three are empty together or not at all; and the first add after
\* a reset gives its type and its patterns the count 1.
C5_ResetClearsAll ==
    /\ ret.op \in {"clear", "clear_memory"}
         => analysis_history = <<>> /\ data_insights = <<>> /\ global_patterns = <<>>
    /\ (analysis_history = <<>>) <=> (data_insights = <<>>)
    /\ data_insights = <<>> => global_patterns = <<>>
    /\ Len(calls) = 1
         => /\ \A i \in 1..Len(data_insights) : data_insights[i].count = 1
            /\ \A i \in 1..Len(global_patterns) : global_patterns[i].count = 1

\* a reset of a session that had evicted entries
C5_Witness ==
    /\ ret.op = "clear"
    /\ ret.discarded > max_interactions
    /\ analysis_history = <<>> /\ data_insights = <<>> /\ global_patterns = <<>>

\* C6: generate_summary leaves the history, the aggregator and the tracker as
\* they are, and a call that follows another returns the same text.
C6_SummaryReadOnly ==
    [][ret'.op = "generate_summary"
         => /\ UNCHANGED <<analysis_history, data_insights, global_patterns>>
            /\ ret.op = "generate_summary" => ret'.value = ret.value]_vars

\* a summary of a history with several entries and tracked patterns
C6_Witness ==
    /\ ret.op = "generate_summary"
    /\ Len(analysis_history) >= 2
    /\ global_patterns # <<>>
    /\ ret.value = generate_summary(analysis_history, global_patterns)

\* C7: generate_summary and generate_comprehensive_conclusions return their
\* fixed message, and nothing else, exactly when the history is empty.
C7_EmptyFallbacks ==
    /\ ret.op = "generate_summary"
         => (ret.value = NoAnalysesSummary <=> analysis_history = <<>>)
    /\ ret.op = "generate_comprehensive_conclusions"
         => /\ ret.value = <<L(NoAnalysesConclusions)>> <=> analysis_history = <<>>
            /\ analysis_history # <<>>
                 => \A i \in 1..Len(ret.value) : ret.value[i] # L(NoAnalysesConclusions)

\* the conclusions of a session that clear_memory has replaced (only then is
\* the capacity the constructor's default) after add_analysis calls were made
C7_Witness ==
    /\ ret.op = "generate_comprehensive_conclusions"
    /\ max_interactions = DefaultMaxInteractions
    /\ analysis_history = <<>>
    /\ ret.value = <<L(NoAnalysesConclusions)>>

\* the type families a question has a keyword of
TriggeredFamilies ==
    [q \in Questions |->
        {type_keywords[i].key : i \in {j \in 1..Len(type_keywords) :
                                          AnyIn(type_keywords[j].keywords, Lower(q))}}]

\* C10: for a question with a keyword of a family, every entry of that
\* family's type scores at least 3 and every entry of no triggered family at
\* most 2; with n >= 1 the entries of a triggered type come before all others
\* in the result, and the first result is one of them whenever the history
\* holds one.
C10_MatchingTypeFirst ==
    ret.op = "get_contextual_memory"
      => LET Matches(e) == e.analysis_type \in TriggeredFamilies[ret.question]
         IN  /\ \A i \in 1..Len(analysis_history) :
                   IF Matches(analysis_history[i])
                   THEN Score(analysis_history[i], ret.question) >= 3
                   ELSE Score(analysis_history[i], ret.question) <= 2
             /\ ret.n >= 1
                  => /\ \A i, j \in 1..Len(ret.value) :
                          (i < j /\ Matches(ret.value[j])) => Matches(ret.value[i])
                     /\ (\E i \in 1..Len(analysis_history) : Matches(analysis_history[i]))
                          => ret.value # <<>> /\ Matches(ret.value[1])

\* the correlation question against an older correlation entry and a newer
\* outlier entry that shares a word with it: the correlation entry is first
C10_Witness ==
    /\ ret.op = "get_contextual_memory"
    /\ ret.question = "Existe correlação entre as variáveis?"
    /\ ret.n = 3
    /\ Len(analysis_history) = 2
    /\ analysis_history[1].analysis_type = "correlation"
    /\ analysis_history[2].analysis_type = "outlier"
    /\ Len(ret.value) = 2
    /\ ret.value[1] = analysis_history[1]
    /\ ret.value[2] = analysis_history[2]

\* does the generated text hold one of the pieces
HasFragment(pieces) == \E i \in 1..Len(sample.frags) : sample.frags[i] \in pieces

\* the keys whose trigger the pieces of the generated text meet
ExpectedPatternKeys ==
    LET correlation == HasFragment({"Correlação ", "CORRELATION\n"})
        outlier == HasFragment({"Outliers ", "atípico\n", "muitos outliers "})
    IN  {k \in PatternVocabulary :
            \/ k = "has_correlations" /\ correlation
            \/ k = "strong_correlations" /\ correlation
                 /\ HasFragment({"forte ", "Strong\n"})
            \/ k = "has_outliers" /\ outlier
            \/ k = "many_outliers" /\ outlier
                 /\ HasFragment({"alta porcentagem ", "High Percentage\n", "muitos outliers "})
            \/ k = "asymmetric_distributions"
                 /\ HasFragment({"assimétrica\n", "Skewness ", "asymmetric\n"})
            \/ k = "has_clusters" /\ HasFragment({"clusters\n", "Agrupamento "})
            \/ k = "has_temporal_patterns"
                 /\ HasFragment({"tendência\n", "Trend ", "padrão temporal\n"})}

\* C8: _extract_patterns returns exactly the keys of the vocabulary whose
\* keywords the text holds in any letter case (strong_correlations and
\* many_outliers only with their family's keyword), each once, with the value
\* true; a text with no keyword gives the empty mapping.
C8_PatternKeys ==
    LET data_patterns == sample.extracted.data_patterns
    IN  /\ Keys(data_patterns) = ExpectedPatternKeys
        /\ Len(data_patterns) = Cardinality(Keys(data_patterns))
        /\ \A i \in 1..Len(data_patterns) : data_patterns[i].value = TRUE
        /\ ExpectedPatternKeys = {} => data_patterns = <<>>

\* a text with a strength word and no correlation word, an amount phrase and
\* an outlier word: the amount counts, the strength does not
C8_Witness ==
    /\ sample.mode = "frags"
    /\ sample.frags = <<"Strong\n", "atípico\n", "High Percentage\n">>
    /\ Keys(sample.extracted.data_patterns) = {"has_outliers", "many_outliers"}

\* C9: the extractors return at most 10 findings and at most 5
\* recommendations, and so does every entry of the history.
C9_ExtractionCaps ==
    /\ Len(sample.extracted.key_findings) <= MaxFindings
    /\ Len(sample.extracted.recommendations) <= MaxRecommendations
    /\ \A i \in 1..Len(analysis_history) :
          /\ Len(analysis_history[i].key_findings) <= MaxFindings
          /\ Len(analysis_history[i].recommendations) <= MaxRecommendations

\* a stored entry of a text with more than 10 bullet lines and more than 5
\* hyphen lines after the heading
C9_Witness ==
    /\ sample.mode = "lines"
    /\ Cardinality({i \in 1..Len(sample.frags) : sample.frags[i] = BulletLine}) > MaxFindings
    /\ Cardinality({i \in 1..Len(sample.frags) : sample.frags[i] = RecLine})
         > MaxRecommendations
    /\ Len(analysis_history) = 1
    /\ Len(analysis_history[1].key_findings) = MaxFindings
    /\ Len(analysis_history[1].recommendations) = MaxRecommendations

\* the positions of the history whose entry scores above 0 for the question
\* of the last ranker call
RelevantPositions ==
    {i \in 1..Len(analysis_history) : Score(analysis_history[i], ret.question) > 0}

\* position i ranks ahead of position j: a higher score, or the same score
\* and added later
RanksAhead(i, j) ==
    \/ Score(analysis_history[i], ret.question) > Score(analysis_history[j], ret.question)
    \/ /\ Score(analysis_history[i], ret.question) = Score(analysis_history[j], ret.question)
       /\ i > j

RankOf(i) == 1 + Cardinality({j \in RelevantPositions : RanksAhead(j, i)})

\* C11: the ranker's result is a prefix of the entries of positive score put
\* in order of non-increasing score, the later added first among equal scores
\* (no entry of score 0 is in it); for n >= 0 the prefix has min(n, number of
\* such entries) elements.
C11_RankedPrefix ==
    ret.op = "get_contextual_memory"
      => /\ Len(ret.value) <= Cardinality(RelevantPositions)
         /\ ret.n >= 0 => Len(ret.value) = Min(ret.n, Cardinality(RelevantPositions))
         /\ \A k \in 1..Len(ret.value) :
               \E i \in RelevantPositions :
                   RankOf(i) = k /\ ret.value[k] = analysis_history[i]

\* two different entries of the same positive score: the newer one is first
C11_Witness ==
    /\ ret.op = "get_contextual_memory"
    /\ Len(analysis_history) = 2
    /\ analysis_history[1] # analysis_history[2]
    /\ Score(analysis_history[1], ret.question) = Score(analysis_history[2], ret.question)
    /\ ret.value = <<analysis_history[2], analysis_history[1]>>

\* C12 as stated: the result never has more than n elements, for every
\* integer n, negative ones included.
C12_AtMostN ==
    ret.op = "get_contextual_memory" => Len(ret.value) <= ret.n

\* C12 amended: for n >= 0 the result has at most n elements; for n < 0 it
\* is the ordering without its last -n entries, so it has max(0, k + n)
\* elements, k being the number of entries of positive score.
C12_SliceBound ==
    ret.op = "get_contextual_memory"
      => /\ ret.n >= 0 => Len(ret.value) <= ret.n
         /\ ret.n < 0 => Len(ret.value) = Max(0, Cardinality(RelevantPositions) + ret.n)

\* n = -1 against two entries of positive score: one entry is returned
C12_Witness ==
    /\ ret.op = "get_contextual_memory"
    /\ ret.n = -1
    /\ Cardinality(RelevantPositions) = 2
    /\ Len(ret.value) = 1

\* the questions none of whose words is longer than 3 characters
NoLongWord ==
    [q \in Questions |->
        \A i \in 1..Len(SplitWords(Lower(q))) : Len(SplitWords(Lower(q))[i]) <= 3]

\* C20: every score is 0, 2, 3 or 5, and it is 3 or 5 exactly for the
\* entries whose type is a family the question has a keyword of (the type
\* signal counts once); an empty history gives an empty result; a question
\* without a word longer than 3 characters gets entries of a triggered type
\* only.
C20_ScoreValues ==
    ret.op = "get_contextual_memory"
      => /\ \A i \in 1..Len(analysis_history) :
               /\ Score(analysis_history[i], ret.question) \in {0, 2, 3, 5}
               /\ Score(analysis_history[i], ret.question) >= 3
                    <=> analysis_history[i].analysis_type \in TriggeredFamilies[ret.question]
         /\ analysis_history = <<>> => ret.value = <<>>
         /\ NoLongWord[ret.question]
              => \A k \in 1..Len(ret.value) :
                    ret.value[k].analysis_type \in TriggeredFamilies[ret.question]

\* a question with keywords of two families against an entry that gets both
\* signals (5) and an entry that gets the type signal alone (3)
C20_Witness ==
    /\ ret.op = "get_contextual_memory"
    /\ Cardinality(TriggeredFamilies[ret.question]) = 2
    /\ \E i, j \in 1..Len(analysis_history) :
          /\ Score(analysis_history[i], ret.question) = 5
          /\ Score(analysis_history[j], ret.question) = 3

\* the analysis types add_analysis was called with since the last reset
PerformedTypes == {calls[i].analysis_type : i \in 1..Len(calls)}

\* the descriptions listed under "Análises Recomendadas" in the conclusions
\* last returned
EmittedDescriptions ==
    UNION {ret.value[i].some :
             i \in {j \in 1..Len(ret.value) :
                      "some" \in DOMAIN ret.value[j] /\ ret.value[j].line = "- "}}

\* C14 as stated: section 9 lists the description of a type of the six
\* exactly when no add_analysis of that type was made since the last reset,
\* evicted entries included, and the three general actions end the document.
C14_MissingTypesOnly ==
    (ret.op = "generate_comprehensive_conclusions" /\ analysis_history # <<>>)
      => /\ EmittedDescriptions = {type_descriptions[t] : t \in all_types \ PerformedTypes}
         /\ SubSeq(ret.value, Len(ret.value) - 2, Len(ret.value))
              = <<L("- Validar descobertas com stakeholders"),
                  L("- Documentar insights para referência futura"),
                  L("- Considerar análises preditivas se apropriado")>>

\* a step that is not a reset
NoReset == ret'.op \notin {"clear", "clear_memory"}

\* C15: a step that is not a reset leaves every entry that stays in the
\* history as it was, field by field: the history after the step is the
\* history before it, or its tail, followed by at most the one new entry.
C15_EntriesImmutable ==
    [][NoReset
        => LET kept == Len(analysis_history') - (IF AddStep THEN 1 ELSE 0)
           IN  /\ kept <= Len(analysis_history)
               /\ ~AddStep => kept = Len(analysis_history)
               /\ \A i \in 1..kept :
                     analysis_history'[i]
                       = analysis_history[Len(analysis_history) - kept + i]]_vars

\* the ranker has returned an entry with several findings from a history
\* that later adds have shifted
C15_Witness ==
    /\ ret.op = "get_contextual_memory"
    /\ Len(calls) > Len(analysis_history)
    /\ Len(analysis_history) >= 2
    /\ \E k \in 1..Len(ret.value) :
          /\ Len(ret.value[k].key_findings) >= 2
          /\ ret.value[k] = analysis_history[1]

\* the bucket of a type before its first add_analysis
BucketOf(insights, t) ==
    IF HasKey(insights, t) THEN Lookup(insights, t)
    ELSE [key |-> t, count |-> 0, patterns |-> <<>>, last_analysis |-> None,
          key_findings |-> <<>>]

\* C18: an add_analysis of type t adds 1 to the count of bucket t (0 before
\* the first add), sets its last_analysis to the entry's timestamp, appends
\* the first min(3, len) findings of the entry in order to its accumulator
\* and removes nothing from it, sets each pattern of the entry to the entry's
\* value and leaves the bucket's other patterns alone; every other bucket is
\* unchanged.
C18_BucketUpdate ==
    [][AddStep
        => LET e == Last(analysis_history')
               t == e.analysis_type
               old == BucketOf(data_insights, t)
               new == BucketOf(data_insights', t)
               added == Min(3, Len(e.key_findings))
           IN  /\ Keys(data_insights') = Keys(data_insights) \cup {t}
               /\ new.count = old.count + 1
               /\ new.last_analysis = e.timestamp
               /\ Len(new.key_findings) = Len(old.key_findings) + added
               /\ SubSeq(new.key_findings, 1, Len(old.key_findings)) = old.key_findings
               /\ \A j \in 1..added :
                     new.key_findings[Len(old.key_findings) + j] = e.key_findings[j]
               /\ Keys(new.patterns) = Keys(old.patterns) \cup Keys(e.data_patterns)
               /\ \A q \in Keys(e.data_patterns) :
                     Lookup(new.patterns, q).value = Lookup(e.data_patterns, q).value
               /\ \A q \in Keys(old.patterns) \ Keys(e.data_patterns) :
                     Lookup(new.patterns, q) = Lookup(old.patterns, q)
               /\ \A u \in Keys(data_insights) \ {t} :
                     Lookup(data_insights', u) = Lookup(data_insights, u)]_vars

\* two adds of a type with ten findings each, beside a bucket of another
\* type: six findings accumulated, the same three twice
C18_Witness ==
    /\ ret.op = "add_analysis"
    /\ HasKey(data_insights, "general")
    /\ Lookup(data_insights, "general").count = 2
    /\ Lookup(data_insights, "general").key_findings
         = <<"- a", "- a", "- a", "- a", "- a", "- a">>
    /\ HasKey(data_insights, "correlation")

\* the headers of the nine sections of the conclusions
SectionHeaders ==
    <<"## 1. Resumo das Análises Realizadas",
      "## 2. Principais Padrões Identificados",
      "## 3. Principais Descobertas por Tipo de Análise",
      "## 4. Insights sobre Qualidade dos Dados",
      "## 5. Relacionamentos entre Variáveis",
      "## 6. Segmentação e Agrupamentos",
      "## 7. Padrões Temporais",
      "## 8. Recomendações Consolidadas",
      "## 9. Próximos Passos Sugeridos">>

\* the positions of the header of section k in the conclusions last returned
HeaderPositions(k) ==
    {i \in 1..Len(ret.value) : ret.value[i] = L(SectionHeaders[k])}

\* the headers that are rendered come once each and in the order of their
\* numbers
HeadersInOrder ==
    \A k, m \in 1..Len(SectionHeaders) :
        /\ Cardinality(HeaderPositions(k)) <= 1
        /\ k < m => \A i \in HeaderPositions(k), j \in HeaderPositions(m) : i < j

\* the line that follows the header of section k
LineAfterHeader(k) == ret.value[(CHOOSE i \in HeaderPositions(k) : TRUE) + 1]

\* C13 as stated: for a non-empty history the conclusions hold the headers
\* of all nine sections, in order.
C13_AllNineHeaders ==
    (ret.op = "generate_comprehensive_conclusions" /\ analysis_history # <<>>)
      => /\ \A k \in 1..Len(SectionHeaders) : HeaderPositions(k) # {}
         /\ HeadersInOrder

\* C13 amended: for a non-empty history the headers of sections 1 to 5, 8
\* and 9 are always rendered, the header of section 6 exactly when
\* has_clusters is tracked and the header of section 7 exactly when
\* has_temporal_patterns is tracked, each once and in the order of their
\* numbers; sections 2, 4, 5 and 8 show their fallback line when their data
\* is absent.
C13_HeadersRendered ==
    (ret.op = "generate_comprehensive_conclusions" /\ analysis_history # <<>>)
      => /\ \A k \in {1, 2, 3, 4, 5, 8, 9} : HeaderPositions(k) # {}
         /\ HeaderPositions(6) # {} <=> HasKey(global_patterns, "has_clusters")
         /\ HeaderPositions(7) # {} <=> HasKey(global_patterns, "has_temporal_patterns")
         /\ HeadersInOrder
         /\ global_patterns = <<>>
              => LineAfterHeader(2) = L("- Nenhum padrão global identificado ainda")
         /\ Keys(global_patterns)
              \cap {"has_outliers", "many_outliers", "asymmetric_distributions"} = {}
              => LineAfterHeader(4) = L("- Dados aparentam boa qualidade geral")
         /\ ~HasKey(global_patterns, "has_correlations")
              => LineAfterHeader(5)
                   = L("- Variáveis aparentam ser relativamente independentes")
         /\ (\A i \in 1..Len(analysis_history) : analysis_history[i].recommendations = <<>>)
              => LineAfterHeader(8)
                   = L("- Continue explorando os dados com análises mais específicas")

\* the conclusions of a session that tracks a temporal pattern and no
\* cluster: the header of section 7 is there, that of section 6 is not
C13_Witness ==
    /\ ret.op = "generate_comprehensive_conclusions"
    /\ analysis_history # <<>>
    /\ HasKey(global_patterns, "has_temporal_patterns")
    /\ ~HasKey(global_patterns, "has_clusters")
    /\ HeaderPositions(7) # {}
    /\ HeaderPositions(6) = {}

\* C16: add_analysis raises on no generated text, whatever recommendation
\* markers it holds and in whatever letter case, nor on a bundle without the
\* key 'analysis'; it stores one entry (with no findings, patterns or
\* recommendations when the text is empty or missing), the count of the
\* entry's type becomes 1, and the pattern tracker stays empty when the entry
\* has no pattern.
C16_DegenerateTextStored ==
    /\ ~sample.extracted.raises
    /\ ret.op = "add_analysis" => ~ret.raised
    /\ calls # <<>>
         => /\ Len(analysis_history) = 1
            /\ EntryOfCall(analysis_history[1], SampleCall)
            /\ InsightCount(data_insights, SampleCall.analysis_type) = 1
            /\ analysis_history[1].data_patterns = <<>> => global_patterns = <<>>
            /\ sample.frags = <<>>
                 => /\ analysis_history[1].key_findings = <<>>
                    /\ analysis_history[1].data_patterns = <<>>
                    /\ analysis_history[1].recommendations = <<>>

\* a stored text that holds 'ecomenda' and the marker in capitals, but not
\* the capitalised heading
C16_Witness ==
    /\ sample.mode = "markers"
    /\ sample.frags = <<"ecomenda\n", "RECOMENDA\n", "- t\n">>
    /\ ret.op = "add_analysis" /\ ~ret.raised
    /\ Len(analysis_history) = 1
    /\ analysis_history[1].recommendations = <<"- t">>

\* the text of the generated bundle
SampleText == Get(sample.bundle, "analysis", "")

\* what follows the first occurrence of sep in s
AfterFirst(s, sep) == SubSeq(s, Find(s, sep) + Len(sep), Len(s))

\* C19 as stated: with a marker in the text, the recommendations are the
\* first 5 hyphen-led lines of everything that follows the first occurrence
\* of the heading token, however often the token occurs, or of the whole
\* text when the token is absent; without a marker there are none.
C19_SectionAfterFirstHeading ==
    sample.extracted.recommendations
      = (IF ~(\/ Contains(Lower(SampleText), "recomenda")
              \/ Contains(Lower(SampleText), "consider"))
         THEN <<>>
         ELSE IF Contains(SampleText, "ecomenda")
         THEN SliceTo(HyphenLines(Split(
                  AfterFirst(SampleText,
                             IF Contains(SampleText, "Recomendações")
                             THEN "Recomendações" ELSE "ecomenda"), "\n")), 5)
         ELSE SliceTo(HyphenLines(Split(SampleText, "\n")), 5))

\* C17: while the executor runs, the context analyze holds is what the
\* ranker gives on the memory as it is (it was queried first and nothing has
\* changed since); the step that queries the ranker leaves the memory alone;
\* a call that returns success = False leaves history, aggregator and
\* tracker as they were, and only a call that returns success = True has
\* called add_analysis, after the executor returned.
C17_FailureLeavesMemory ==
    /\ [](agent.pc = "invoke"
            => agent.relevant_memory
                 = get_contextual_memory(analysis_history, agent.question, DefaultN))
    /\ [][(agent.pc = "idle" /\ agent'.pc = "invoke")
            => UNCHANGED <<session, calls>>]_vars
    /\ [][(agent.pc = "invoke" /\ agent'.pc = "idle")
            => IF agent'.result.success
               THEN /\ AddStep
                    /\ EntryOfCall(Last(analysis_history'), Last(calls'))
                    /\ Last(calls').question = agent.question
                    /\ agent'.result.memory_context = Len(agent.relevant_memory)
               ELSE UNCHANGED <<session, calls>>]_vars

\* an analysis has failed after another one had been stored
C17_Witness ==
    /\ agent.pc = "idle"
    /\ "result" \in DOMAIN agent
    /\ ~agent.result.success
    /\ Len(analysis_history) >= 1
    /\ ret.op = "get_contextual_memory"
    /\ ret.value # <<>>

\* the recommendations of the entries now in the history
HistoryRecommendations ==
    UNION {Range(analysis_history[i].recommendations) : i \in 1..Len(analysis_history)}

\* how many lines a line group of the conclusions renders: list(set(...))[:limit]
RenderedCount(group) == Min(Cardinality(group.some), group.limit)

KeepExploring == L("- Continue explorando os dados com análises mais específicas")

\* C21: section 8 of the conclusions is one group of distinct lines, each a
\* recommendation of an entry now in the history, at most 8 of them, and the
\* header of section 9 follows; the 'keep exploring' line stands in their
\* place exactly when no entry of the history has a recommendation.
C21_ConsolidatedRecommendations ==
    (ret.op = "generate_comprehensive_conclusions" /\ analysis_history # <<>>)
      => LET p == CHOOSE i \in HeaderPositions(8) : TRUE
             group == ret.value[p + 1]
         IN  /\ ret.value[p + 2] = L("")
             /\ HeaderPositions(9) = {p + 3}
             /\ (group = KeepExploring) <=> (HistoryRecommendations = {})
             /\ HistoryRecommendations # {}
                  => /\ DOMAIN group = {"line", "some", "limit"}
                     /\ group.line = ""
                     /\ group.some # {}
                     /\ group.some \subseteq HistoryRecommendations
                     /\ RenderedCount(group) <= MaxConsolidatedRecommendations
                     /\ RenderedCount(group)
                          = Min(Cardinality(HistoryRecommendations),
                                MaxConsolidatedRecommendations)

\* the conclusions of a history whose two entries hold nine distinct
\* recommendations, one of them twice: eight are listed
C21_Witness ==
    /\ ret.op = "generate_comprehensive_conclusions"
    /\ Len(analysis_history) = 2
    /\ Cardinality(HistoryRecommendations) = 9
    /\ RenderedCount(LineAfterHeader(8)) = 8

\* the lines of section k of the conclusions last returned: those between
\* its header and the next header (or the end)
SectionBody(k) ==
    LET p == CHOOSE i \in HeaderPositions(k) : TRUE
        later == {j \in (p + 1)..Len(ret.value) :
                    \E m \in 1..Len(SectionHeaders) : ret.value[j] = L(SectionHeaders[m])}
        q == IF later = {} THEN Len(ret.value) + 1
             ELSE CHOOSE j \in later : \A i \in later : j <= i
    IN  SubSeq(ret.value, p + 1, q - 1)

\* the sentences of the data-quality and correlation narratives
OutliersSentence ==
    L("- Outliers detectados: Podem indicar problemas de qualidade ou valores genuinamente extremos")
ManyOutliersSentence == L("- Alta concentração de outliers: Requer investigação aprofundada")
AsymmetricSentence ==
    L("- Distribuições assimétricas: Considere transformações para normalização")
GoodQualitySentence == L("- Dados aparentam boa qualidade geral")
CorrelationsSentence ==
    L("- Correlações significativas foram identificadas entre variáveis")
StrongCorrelationsSentences ==
    {L("- Algumas correlações são particularmente fortes"),
     L("- **Recomendação**: Considere análise de multicolinearidade para modelagem")}
IndependentSentence == L("- Variáveis aparentam ser relativamente independentes")

\* the patterns of the results add_analysis was called with since the last
\* reset, evicted entries included
CalledPatterns ==
    UNION {Keys(Extract(calls[i].analysis_result).data_patterns) : i \in 1..Len(calls)}

\* the patterns of the entries now in the history
HistoryPatterns ==
    UNION {Keys(analysis_history[i].data_patterns) : i \in 1..Len(analysis_history)}

\* C22: in the conclusions of a non-empty history, each data-quality
\* sentence stands in section 4 exactly when its key is tracked, the 'good
\* quality' sentence exactly when none of the three is; in section 5 the
\* correlation sentence stands exactly when has_correlations is tracked, the
\* two strong-correlation sentences exactly when strong_correlations is
\* tracked too and only next to the correlation sentence, the 'independent'
\* sentence otherwise; and a key is tracked exactly when a result stored
\* since the last reset had the pattern, whether its entry is still in the
\* history or not.
C22_NarrativesFollowTracker ==
    (ret.op = "generate_comprehensive_conclusions" /\ analysis_history # <<>>)
      => LET quality == Range(SectionBody(4))
             relations == Range(SectionBody(5))
             tracked(k) == HasKey(global_patterns, k)
         IN  /\ OutliersSentence \in quality <=> tracked("has_outliers")
             /\ ManyOutliersSentence \in quality <=> tracked("many_outliers")
             /\ AsymmetricSentence \in quality <=> tracked("asymmetric_distributions")
             /\ GoodQualitySentence \in quality
                  <=> ~(\/ tracked("has_outliers") \/ tracked("many_outliers")
                        \/ tracked("asymmetric_distributions"))
             /\ quality \subseteq {OutliersSentence, ManyOutliersSentence,
                                   AsymmetricSentence, GoodQualitySentence, L("")}
             /\ CorrelationsSentence \in relations <=> tracked("has_correlations")
             /\ \A s \in StrongCorrelationsSentences :
                   /\ s \in relations
                        <=> (tracked("has_correlations") /\ tracked("strong_correlations"))
                   /\ s \in relations => CorrelationsSentence \in relations
             /\ IndependentSentence \in relations <=> ~tracked("has_correlations")
             /\ relations \subseteq {CorrelationsSentence, IndependentSentence, L("")}
                                      \cup StrongCorrelationsSentences
             /\ Keys(global_patterns) = CalledPatterns

\* the conclusions of a session whose only entry with outliers was evicted:
\* the two outlier sentences are still there
C22_Witness ==
    /\ ret.op = "generate_comprehensive_conclusions"
    /\ analysis_history # <<>>
    /\ "has_outliers" \notin HistoryPatterns
    /\ "has_outliers" \in CalledPatterns
    /\ {OutliersSentence, ManyOutliersSentence} \subseteq Range(SectionBody(4))
    /\ GoodQualitySentence \notin Range(SectionBody(4))

\* the generated text, piece by piece as written in Pieces
SampleAnalysis ==
    IF "analysis" \in DOMAIN sample.bundle
    THEN Concat([i \in 1..Len(sample.frags) |-> CHOOSE p \in Pieces : p = sample.frags[i]])
    ELSE ""

\* a line qualifies as a finding: trimmed it starts with a hyphen or the
\* bullet, or lower-cased it holds one of the four keywords
Qualifies(line) ==
    \/ \E c \in {"-", Bullet} : StartsWith(Strip(line), c)
    \/ \E k \in {"encontrado", "identificado", "detectado", "observado"} :
          Contains(Lower(line), k)

RECURSIVE SumCounts(_)
SumCounts(counts) ==
    IF counts = <<>> THEN 0 ELSE Head(counts).count + SumCounts(Tail(counts))

\* C24: the counts of the aggregator add up to the number of add_analysis
\* calls since the last reset, the history holds that many entries up to its
\* capacity, and the tracker counts, for every pattern, the calls since the
\* last reset whose result had it: no call has updated one of the three
\* without the others.
C24_UpdatedTogether ==
    /\ SumCounts(data_insights) = Len(calls)
    /\ Len(analysis_history) = Min(Len(calls), max_interactions)
    /\ \A p \in PatternVocabulary :
          PatternRecord(global_patterns, p).count
            = Cardinality({i \in 1..Len(calls) :
                  HasKey(Extract(calls[i].analysis_result).data_patterns, p)})

\* more calls than the history holds, of two types, some with a pattern
C24_Witness ==
    /\ Len(calls) > max_interactions
    /\ Len(data_insights) >= 2
    /\ global_patterns # <<>>
    /\ SumCounts(data_insights) = Len(calls)
    /\ Len(analysis_history) = max_interactions

\* the types of the entries now in the history, in the order of their first
\* occurrence, each with the number of its entries
HistoryTypeCounts ==
    LET first == {i \in 1..Len(analysis_history) :
                    \A j \in 1..(i - 1) :
                        analysis_history[j].analysis_type # analysis_history[i].analysis_type}
        at(k) == CHOOSE i \in first : Cardinality({j \in first : j <= i}) = k
    IN  [k \in 1..Cardinality(first) |->
            [key |-> analysis_history[at(k)].analysis_type,
             count |-> Cardinality({i \in 1..Len(analysis_history) :
                          analysis_history[i].analysis_type
                            = analysis_history[at(k)].analysis_type})]]

\* the summary, as rendered from given per-type counts
SummaryOf(type_counts) ==
    Join(<<"## Resumo das Análises Realizadas\n",
           "Total de análises: " \o ToString(SumCounts(type_counts)) \o "\n",
           "\n### Tipos de Análises:">>
         \o [k \in 1..Len(type_counts) |->
               "- " \o type_counts[k].key \o ": "
               \o ToString(type_counts[k].count) \o " análises"]
         \o (IF global_patterns # <<>>
             THEN <<"\n### Padrões Identificados:">>
                  \o [i \in 1..Len(global_patterns) |->
                        "- " \o global_patterns[i].key \o ": detectado em "
                        \o ToString(global_patterns[i].count) \o " análises"]
             ELSE <<>>))

\* C25: the summary and section 1 of the conclusions render the same
\* per-type counts, those of the entries now in the history, in the order
\* in which the types first occur there, and the total they render is the
\* sum of these counts; no such count exceeds the aggregator's count of the
\* type, and all of them equal the aggregator's counts exactly when no more
\* entries than the capacity were added since the last reset.
C25_RenderedTypeCounts ==
    /\ (ret.op = "generate_summary" /\ analysis_history # <<>>)
         => ret.value = SummaryOf(HistoryTypeCounts)
    /\ (ret.op = "generate_comprehensive_conclusions" /\ analysis_history # <<>>)
         => /\ ret.value[2]
                 = L("*Baseado em " \o ToString(SumCounts(HistoryTypeCounts))
                     \o " análises realizadas*\n")
            /\ SectionBody(1)
                 = [k \in 1..Len(HistoryTypeCounts) |->
                       L("- **" \o HistoryTypeCounts[k].key \o "**: "
                         \o ToString(HistoryTypeCounts[k].count) \o " análise(s)")]
                   \o <<L("")>>
    /\ SumCounts(HistoryTypeCounts) = Len(analysis_history)
    /\ \A k \in 1..Len(HistoryTypeCounts) :
          HistoryTypeCounts[k].count
            <= InsightCount(data_insights, HistoryTypeCounts[k].key)
    /\ (\A t \in Keys(data_insights) :
           /\ t \in Keys(HistoryTypeCounts)
           /\ Lookup(HistoryTypeCounts, t).count = InsightCount(data_insights, t))
         <=> Len(calls) <= max_interactions

\* a summary of a history of three entries whose first and last are of one
\* type and whose second is of another
C25_Witness ==
    /\ ret.op = "generate_summary"
    /\ Len(analysis_history) = 3
    /\ analysis_history[1].analysis_type = analysis_history[3].analysis_type
    /\ analysis_history[1].analysis_type # analysis_history[2].analysis_type
    /\ ret.value = SummaryOf(HistoryTypeCounts)

\* the types the aggregator or the tracker knows
KnownTypes ==
    Keys(data_insights)
      \cup UNION {Range(global_patterns[i].analyses) : i \in 1..Len(global_patterns)}

\* pattern narrow is tracked only if pattern wide is, with a count at least
\* as large
TrackedWithin(narrow, wide) ==
    HasKey(global_patterns, narrow)
      => /\ HasKey(global_patterns, wide)
         /\ Lookup(global_patterns, wide).count >= Lookup(global_patterns, narrow).count

\* C26: a type is listed under a pattern of the tracker exactly when the
\* pattern is a key of the patterns of the type's bucket in the aggregator;
\* no pattern's count exceeds the number of add_analysis calls since the
\* last reset; strong_correlations is tracked only if has_correlations is,
\* and many_outliers only if has_outliers is, with a count at least as
\* large.
C26_TrackerMatchesAggregator ==
    /\ \A p \in PatternVocabulary, t \in KnownTypes :
          (t \in Range(PatternRecord(global_patterns, p).analyses))
            <=> (/\ HasKey(data_insights, t)
                 /\ HasKey(Lookup(data_insights, t).patterns, p))
    /\ Keys(global_patterns) \subseteq PatternVocabulary
    /\ \A p \in PatternVocabulary :
          PatternRecord(global_patterns, p).count <= Len(calls)
    /\ TrackedWithin("strong_correlations", "has_correlations")
    /\ TrackedWithin("many_outliers", "has_outliers")

\* correlations met under two types, a strong one only once
C26_Witness ==
    /\ HasKey(global_patterns, "strong_correlations")
    /\ Lookup(global_patterns, "has_correlations").count
         > Lookup(global_patterns, "strong_correlations").count
    /\ Range(Lookup(global_patterns, "has_correlations").analyses)
         = {"correlation", "general"}
    /\ HasKey(Lookup(data_insights, "general").patterns, "has_correlations")
    /\ Lookup(data_insights, "general").count >= 2

\* the session that add_analysis calls cs alone build on memory, an empty
\* session to begin with
RECURSIVE Replay(_, _)
Replay(memory, cs) ==
    IF cs = <<>> THEN memory
    ELSE LET c == Head(cs)
             memory_entry == NewEntry(c.question, c.analysis_result, c.analysis_type)
         IN  Replay([analysis_history |->
                        DequeAppend(memory.analysis_history, max_interactions, memory_entry),
                     data_insights |-> _update_insights(memory.data_insights, memory_entry),
                     global_patterns |->
                        _update_global_patterns(memory.global_patterns, memory_entry)],
                    Tail(cs))

\* a session without the clock readings it holds
Untimed(memory) ==
    [analysis_history |->
        [i \in 1..Len(memory.analysis_history) |->
            [memory.analysis_history[i] EXCEPT !.timestamp = None]],
     data_insights |->
        [i \in 1..Len(memory.data_insights) |->
            [memory.data_insights[i] EXCEPT !.last_analysis = None]],
     global_patterns |-> memory.global_patterns]

\* C27: a step that returns from get_contextual_memory or from
\* generate_comprehensive_conclusions leaves the history, the aggregator and
\* the tracker as they were, whatever the question and n; so, clock
\* readings aside, the session is always the one that the add_analysis
\* calls since the last reset build on their own, whichever queries were
\* made in between.
C27_QueriesReadOnly ==
    /\ [][ret'.op \in {"get_contextual_memory", "generate_comprehensive_conclusions"}
            => UNCHANGED <<analysis_history, data_insights, global_patterns,
                           max_interactions>>]_vars
    /\ [](Untimed([analysis_history |-> analysis_history,
                   data_insights |-> data_insights,
                   global_patterns |-> global_patterns])
            = Untimed(Replay([analysis_history |-> <<>>, data_insights |-> <<>>,
                              global_patterns |-> <<>>], calls)))

\* conclusions rendered for a session of two entries, one of whose types
\* has gathered more findings than the conclusions show
C27_Witness ==
    /\ ret.op = "generate_comprehensive_conclusions"
    /\ Len(analysis_history) >= 2
    /\ \E i \in 1..Len(data_insights) :
          Len(data_insights[i].key_findings) > MaxFindingsPerType

\* C28: the entries get_contextual_memory returns are entries of the
\* history as it is, each taken from a position of its own; an entry built
\* from a call whose entry the history no longer holds is not among them.
C28_ContextFromHistory ==
    ret.op = "get_contextual_memory"
      => /\ \E f \in [1..Len(ret.value) -> 1..Len(analysis_history)] :
               /\ \A k, m \in 1..Len(ret.value) : f[k] = f[m] => k = m
               /\ \A k \in 1..Len(ret.value) : ret.value[k] = analysis_history[f[k]]
         /\ \A i \in 1..Len(calls) :
               (\A j \in 1..Len(analysis_history) :
                    ~EntryOfCall(analysis_history[j], calls[i]))
                 => \A k \in 1..Len(ret.value) : ~EntryOfCall(ret.value[k], calls[i])

\* context asked with the very question of an evicted entry: the
\* aggregator still counts the entry's type, the context holds another entry
C28_Witness ==
    /\ ret.op = "get_contextual_memory"
    /\ ret.value # <<>>
    /\ Len(calls) > Len(analysis_history)
    /\ calls[1].question = ret.question
    /\ \A j \in 1..Len(analysis_history) :
          /\ ~EntryOfCall(analysis_history[j], calls[1])
          /\ analysis_history[j].analysis_type # calls[1].analysis_type
    /\ InsightCount(data_insights, calls[1].analysis_type) >= 1

\* a step of analyze, and the step with which a call returns
AnalyzeReturns == agent.pc = "invoke" /\ agent'.pc = "idle"

\* C29: a call of analyze that returns success = True has added exactly one
\* entry, that of its question, in the step that ends it, and the entry's
\* visualizations are the plots the executor's tools made in this call;
\* before that step the call adds nothing, so the context it holds and the
\* summary or conclusions a tool returns while the executor runs are those
\* of the memory as the calls before it left it; a call that fails adds
\* nothing.
C29_OneAddAfterTools ==
    /\ [][AnalyzeReturns
            => IF agent'.result.success
               THEN /\ calls' = Append(calls, Last(calls'))
                    /\ Last(calls').question = agent.question
                    /\ EntryOfCall(Last(analysis_history'), Last(calls'))
                    /\ Last(analysis_history').visualizations = agent'.outcome.plots
                    /\ agent'.result.plots = agent'.outcome.plots
                    /\ SumCounts(data_insights') = SumCounts(data_insights) + 1
               ELSE UNCHANGED <<session, calls>>]_vars
    /\ [][agent'.pc = "invoke" => UNCHANGED <<session, calls>>]_vars
    /\ [](agent.pc = "invoke"
            => /\ agent.generated_plots = <<>>
               /\ agent.relevant_memory
                    = get_contextual_memory(analysis_history, agent.question, DefaultN)
               /\ ret.op = "generate_summary"
                    => ret.value = generate_summary(analysis_history, global_patterns)
               /\ ret.op = "generate_comprehensive_conclusions"
                    => ret.value = generate_comprehensive_conclusions(
                                      analysis_history, data_insights, global_patterns))
    /\ [](SumCounts(data_insights) = Len(calls))

\* the second call that succeeded, with the entry of the first as context:
\* its tools made no plot and its entry has no visualization, the entry of
\* the first has one
C29_Witness ==
    /\ agent.pc = "idle"
    /\ "result" \in DOMAIN agent
    /\ agent.result.success
    /\ agent.result.memory_context = 1
    /\ agent.outcome.plots = <<>>
    /\ Len(calls) = 2
    /\ Len(analysis_history) = 2
    /\ analysis_history[1].visualizations # <<>>
    /\ analysis_history[2].visualizations = <<>>

\* the tags of _determine_analysis_type that the ranker has keywords for
RankedTags ==
    {"correlation", "outlier", "distribution", "clustering", "temporal", "conclusions"}

\* C30 as stated: while analyze answers a question that is tagged with one
\* of the six types, every entry of the history stored under that tag has
\* the type score (3, or 5 with the lexical score) for the question, and
\* the context that was handed to the executor lists the entries of that
\* tag ahead of the entries of every other tag, beginning with one of them
\* if there is any.
C30_TagsAgree ==
    (agent.pc = "invoke" /\ DeterminedType[agent.question] \in RankedTags)
      => LET tag == DeterminedType[agent.question]
             context == agent.relevant_memory
         IN  /\ \A i \in 1..Len(analysis_history) :
                   analysis_history[i].analysis_type = tag
                     => Score(analysis_history[i], agent.question) >= TypeScore
             /\ \A k, m \in 1..Len(context) :
                   (context[k].analysis_type = tag /\ context[m].analysis_type # tag)
                     => k < m
             /\ (\E i \in 1..Len(analysis_history) :
                    analysis_history[i].analysis_type = tag)
                  => (context # <<>> /\ context[1].analysis_type = tag)

====
